---- MODULE Spec2Model ----
(***************************************************************************)
(* Ride-data aggregation pipeline of uber-rides-receipt.                   *)
(*                                                                         *)
(* Spec        : one run of the dashboard's handleFetchRides               *)
(*               (src/src/lib/pdf-utils.ts 793-893) against the server     *)
(*               functions fetchActivities (1386-1483) and                 *)
(*               fetchMultipleTripDetails (1573-1653).  Every await is a   *)
(*               point where the run is suspended; one action is the code  *)
(*               that runs between two awaits.                             *)
(* SpecDetails : the handler of fetchMultipleTripDetails alone, with its   *)
(*               concurrent per-identifier requests completing in any      *)
(*               order.                                                    *)
(* SpecReceipts: one call of fetchReceiptPdf (1658-1741) or of             *)
(*               fetchMultipleReceiptPdfs (1746-1835): per trip, the       *)
(*               invoice-file request and the fetch of the document.       *)
(* SpecExport  : one run of handleDownloadReport (896-962) or of           *)
(*               handleDownloadInvoices (965-1030), with the merge loop of *)
(*               generateSummaryPdf (242-274).                             *)
(* SpecSelection: the table of the dashboard: row selection and status     *)
(*               filter, the summary derived from them (754-768), and one  *)
(*               run of handleDownloadCsv (1062-1087) or of                *)
(*               handleDownloadSummaryPdf (1033-1059).                     *)
(* SpecFunctions: one application of one of the pure functions of the      *)
(*               pipeline to an argument drawn from a bounded set.         *)
(* SpecFont    : the calls of loadGoogleSansFont (7-25) made by the PDF    *)
(*               render calls of one page, suspended at their awaits.      *)
(* SpecSession : the dashboard from its mount to logout: the stored        *)
(*               credentials (728-751), the authentication dialog, logout  *)
(*               (783-790) and the runs of handleFetchRides the user can   *)
(*               start, each suspended at its awaits.                      *)
(* SpecRefetch : one run of handleFetchRides started while the table       *)
(*               shows the rides of an earlier run, with the requests      *)
(*               able to throw (catch block 886-889).                      *)
(* SpecRefetchLive: SpecRefetch under weak fairness of its steps, against  *)
(*               a provider that follows one course of page tokens.        *)
(***************************************************************************)
EXTENDS Integers, Sequences, FiniteSets, TLC

\* ---------------------------------------------------------------- bounds
MaxPages == 3          \* pages the provider serves before it must stop sending a token
MaxPageLen == 5        \* activities on a full page of the modelled provider
MaxUUIDs == 3          \* identifiers in one direct call of fetchMultipleTripDetails (SpecDetails)
MaxTrips == 2          \* trips in one call of fetchMultipleReceiptPdfs (SpecReceipts)
MaxRides == 4          \* rides in the dashboard's table when a download starts (SpecExport)
MaxDocPages == 2       \* pages of the longest document merged (SpecExport)
MaxTableRides == 3     \* rides in the table whose selection is exported (SpecSelection)
MaxTextLen == 3        \* characters of a text field handed to a renderer (SpecFunctions)
MaxFareLen == 4        \* characters of a fare or description string (SpecFunctions)
MaxLabelLen == 4       \* characters of a vehicle label or image URL (SpecFunctions)
MaxRenders == 4        \* PDF render calls in the life of the page (SpecFont)

\* ------------------------------------------------------ program constants
limit == 50            \* handleFetchRides: limit: 50
batchSize == 10        \* handleFetchRides: const batchSize = 10

\* ------------------------------------------------------------ JS values
NULL == "NULL"                 \* null
UNDEFINED == "UNDEFINED"       \* undefined / absent property
EmptyString == ""              \* the empty string, falsy in JS

\* JS truthiness of a string | null | undefined value
Truthy(v) == v # NULL /\ v # UNDEFINED /\ v # EmptyString

\* Array.prototype.slice(start, end) on a 0-indexed array, end exclusive
Slice(arr, start, end) ==
    LET e == IF end > Len(arr) THEN Len(arr) ELSE end
    IN  IF start >= e THEN <<>> ELSE SubSeq(arr, start + 1, e)

Range(s) == {s[k] : k \in 1..Len(s)}

\* faulty variant of PushAll: the list is kept sorted, oldest ride first
RECURSIVE InsertAsc(_, _)
InsertAsc(arr, x) ==
    IF arr = <<>> THEN <<x>>
    ELSE IF x.rideId <= Head(arr).rideId THEN <<x>> \o arr
    ELSE <<Head(arr)>> \o InsertAsc(Tail(arr), x)

RECURSIVE PushAll_Sorted(_, _)
PushAll_Sorted(arr, items) ==
    IF items = <<>> THEN arr
    ELSE PushAll_Sorted(InsertAsc(arr, Head(items)), Tail(items))

\* arr.push(...items)
PushAll(arr, items) == arr \o items

\* allActivities.filter((a) => batch.includes(a.rideId))
RECURSIVE FilterByRideId(_, _)
FilterByRideId(arr, batchIds) ==
    IF arr = <<>> THEN <<>>
    ELSE (IF Head(arr).rideId \in Range(batchIds) THEN <<Head(arr)>> ELSE <<>>)
         \o FilterByRideId(Tail(arr), batchIds)

\* arr.map(a => a.rideId)
RideIds(arr) == [k \in 1..Len(arr) |-> arr[k].rideId]

CeilDiv(a, b) == (a + b - 1) \div b

\* ----------------------------------------------------------- JS numbers
\* A number is NaN or a non-negative decimal: its integer part and the digits
\* of its fraction, without trailing zeros.  (No operation of the program
\* studied here produces a negative number or an infinity.)
NaN == [nan |-> TRUE, int |-> 0, frac |-> <<>>]
Num(int, frac) == [nan |-> FALSE, int |-> int, frac |-> frac]
Zero == Num(0, <<>>)

\* the k-th digit after the decimal point
FracDigit(n, k) == IF k <= Len(n.frac) THEN n.frac[k] ELSE 0

RECURSIVE StripZeros(_)
StripZeros(ds) ==
    IF ds = <<>> THEN <<>>
    ELSE IF ds[Len(ds)] = 0 THEN StripZeros(SubSeq(ds, 1, Len(ds) - 1))
    ELSE ds

\* a + b.  Exact on the amounts used here (at most three decimals)
ToMilli(n) == n.int * 1000 + FracDigit(n, 1) * 100 + FracDigit(n, 2) * 10 + FracDigit(n, 3)
FromMilli(m) == Num(m \div 1000, StripZeros(<<(m \div 100) % 10, (m \div 10) % 10, m % 10>>))
Add(a, b) == IF a.nan \/ b.nan THEN NaN ELSE FromMilli(ToMilli(a) + ToMilli(b))

\* x > 0
Positive(n) == ~n.nan /\ (n.int > 0 \/ n.frac # <<>>)

\* ------------------------------------------------------------- JS text
\* A text is a sequence of pieces: single characters, or runs of characters
\* none of which matters to the code that reads the text.
DigitChars == <<"0", "1", "2", "3", "4", "5", "6", "7", "8", "9">>
DigitChar(d) == DigitChars[d + 1]
IsDigit(c) == \E d \in 0..9 : c = DigitChar(d)
DigitValue(c) == CHOOSE d \in 0..9 : c = DigitChar(d)

\* the decimal digits of a natural number
RECURSIVE Digits(_)
Digits(n) == IF n < 10 THEN <<DigitChar(n)>> ELSE Digits(n \div 10) \o <<DigitChar(n % 10)>>

\* the number that the digits of a text spell, whatever else is between them
RECURSIVE DigitsValue(_, _)
DigitsValue(acc, cell) ==
    IF cell = <<>> THEN acc
    ELSE IF IsDigit(Head(cell)) THEN DigitsValue(acc * 10 + DigitValue(Head(cell)), Tail(cell))
    ELSE DigitsValue(acc, Tail(cell))

\* Number.prototype.toFixed(2)
ToFixed(n) ==
    IF n.nan THEN <<"NaN">>
    ELSE LET h == n.int * 100 + FracDigit(n, 1) * 10 + FracDigit(n, 2)
                  + (IF FracDigit(n, 3) >= 5 THEN 1 ELSE 0)
         IN  Digits(h \div 100) \o <<".", DigitChar((h \div 10) % 10), DigitChar(h % 10)>>

\* array.join(separator) of texts
RECURSIVE Join(_, _)
Join(texts, separator) ==
    IF texts = <<>> THEN <<>>
    ELSE IF Len(texts) = 1 THEN texts[1]
    ELSE texts[1] \o <<separator>> \o Join(Tail(texts), separator)

Min(a, b) == IF a < b THEN a ELSE b

\* ---------------------------------------------------------- credentials
\* auth: UberAuthCredentials | null.  A null auth reads undefined through auth?.x
NullAuth == [isNull |-> TRUE, cookie |-> UNDEFINED, csrfToken |-> UNDEFINED]
ValidAuth == [isNull |-> FALSE, cookie |-> "sid=1", csrfToken |-> "x"]
AuthValues ==
    {NullAuth} \cup [isNull : {FALSE}, cookie : {"", "sid=1"}, csrfToken : {"", "x"}]

\* inputValidator of the server functions: !data.auth?.cookie || !data.auth?.csrfToken
AuthRejected(a) == ~Truthy(a.cookie) \/ ~Truthy(a.csrfToken)

\* --------------------------------------------------------------- provider
\* The provider lists rides most recent first.  Ride identifiers are numbers
\* that decrease down the listing; TopId is the most recent ride.
TopId == MaxPages * MaxPageLen + 1
Tokens == {"tokA", "tokB"}          \* opaque continuation tokens
StopTokens == {NULL, EmptyString}   \* what nextPageToken holds on a last page
PageLens == {0, 1, MaxPageLen}      \* an empty page, a short page, a full page

\* fetchActivities transform of one activity into a summary-level ride
SummaryRide(uuid) ==
    [rideId |-> uuid, driverName |-> "", endLocation |-> "", status |-> "COMPLETED"]

\* the activities of a page that starts at ride `start` and holds `n` rides
PageActivities(start, n) == [k \in 1..n |-> SummaryRide(start - (k - 1))]

\* fetchActivities result, success and catch branch
PageOk(acts, tok) == [activities |-> acts, nextPageToken |-> tok, error |-> UNDEFINED]
PageFailed == [activities |-> <<>>, nextPageToken |-> NULL, error |-> "Uber API error"]

\* faulty variant of buildActivitiesVariables: the token is never put in the variables
buildActivitiesVariables_NoToken(options) ==
    [limit |-> IF options.limit \in Nat THEN options.limit ELSE 50,
     nextPageToken |-> UNDEFINED]

\* buildActivitiesVariables: limit ?? 50; the token is sent only when it is truthy
buildActivitiesVariables(options) ==
    [limit |-> IF options.limit \in Nat THEN options.limit ELSE 50,
     nextPageToken |-> IF Truthy(options.nextPageToken)
                       THEN options.nextPageToken ELSE UNDEFINED]

\* faulty variant of NoMorePages: an empty page is taken for the last page too
NoMorePages_EmptyPage(result) ==
    ~Truthy(result.nextPageToken) \/ Len(result.activities) = 0

\* handleFetchRides: if (!result.nextPageToken) break;
NoMorePages(result) == ~Truthy(result.nextPageToken)

\* ------------------------------------------------- fetchMultipleTripDetails
\* the TransformedRide built from a getTrip response
DetailRide(tripUUID) ==
    [rideId |-> tripUUID, driverName |-> "driver", endLocation |-> "drop", status |-> "COMPLETED"]

\* one element of `results`: not settled yet, the try branch, the catch branch
Pending == [settled |-> FALSE]
Success(ride) == [settled |-> TRUE, success |-> TRUE, ride |-> ride]
Failure(tripUUID) ==
    [settled |-> TRUE, success |-> FALSE, error |-> <<"Failed to fetch", tripUUID>>]

\* inputValidator of fetchMultipleTripDetails
DetailsRejected(a, ids) == AuthRejected(a) \/ Len(ids) = 0

\* the async callback of tripUUIDs.map: try { ... } catch { ... }
RequestOutcome(tripUUID, ok) ==
    IF ok THEN Success(DetailRide(tripUUID)) ELSE Failure(tripUUID)

\* faulty variant of SuccessRides: a failed request leaves its summary record
RECURSIVE SuccessRides_Fallback(_)
SuccessRides_Fallback(res) ==
    IF res = <<>> THEN <<>>
    ELSE (IF Head(res).success THEN <<Head(res).ride>>
          ELSE <<SummaryRide(Head(res).error[2])>>) \o SuccessRides_Fallback(Tail(res))

\* for (const result of results) if (result.success) rides.push(result.ride)
RECURSIVE SuccessRides(_)
SuccessRides(res) ==
    IF res = <<>> THEN <<>>
    ELSE (IF Head(res).success THEN <<Head(res).ride>> ELSE <<>>) \o SuccessRides(Tail(res))

\* faulty variant of ErrorsOf: the else branch is lost
ErrorsOf_Dropped(res) == <<>>

\* for (const result of results) ... else errors.push(result.error)
RECURSIVE ErrorsOf(_)
ErrorsOf(res) ==
    IF res = <<>> THEN <<>>
    ELSE (IF Head(res).success THEN <<>> ELSE <<Head(res).error>>) \o ErrorsOf(Tail(res))

\* return { rides, errors }
SplitResults(res) == [rides |-> SuccessRides(res), errors |-> ErrorsOf(res)]

\* Which requests of a batch of m fail.  Every subset for a short batch; for a
\* long one: none, all, the first, the last, all but the last, every second one.
FailSets(m) ==
    IF m <= 3 THEN SUBSET (1..m)
    ELSE {{}, 1..m, {1}, {m}, 1..(m - 1), {k \in 1..m : k % 2 = 1}}

\* faulty variant of BatchSlice: the end index is taken as inclusive
BatchSlice_Inclusive(ids, start) == Slice(ids, start, start + batchSize + 1)

\* const batch = tripUUIDs.slice(i, i + batchSize)
BatchSlice(ids, start) == Slice(ids, start, start + batchSize)

\* ------------------------------------------------------------------ state
VARIABLES
    auth,            \* dashboard state: UberAuthCredentials | null
    dateFrom,        \* dashboard state: dateRange.from is set
    rides,           \* dashboard state: TransformedRide[]
    isLoadingRides,  \* dashboard state
    hasSearched,     \* dashboard state
    rowSelection,    \* dashboard state: the selected ride identifiers
    fetchProgress,   \* dashboard state: <<>> is the empty string
    pc,              \* where the run of handleFetchRides stands
    allActivities,   \* handleFetchRides local
    pageToken,       \* handleFetchRides local
    pageCount,       \* handleFetchRides local
    tripUUIDs,       \* handleFetchRides local
    i,               \* handleFetchRides local, loop index of the batch loop
    batch,           \* handleFetchRides local
    enrichedRides,   \* handleFetchRides local
    cursor,          \* provider: the next ride of its listing
    pageRequests,    \* the variables of every fetchActivities request sent, in order
    pageResponses,   \* every fetchActivities result received, in order
    detailCalls,     \* the tripUUIDs of every fetchMultipleTripDetails call, in order
    detailReturns,   \* every fetchMultipleTripDetails result received, in order
    inFlight,        \* getTrip requests sent and not yet settled
    console,         \* console.error calls of the dashboard
    dpc,             \* fetchMultipleTripDetails handler: where one call stands
    data,            \* fetchMultipleTripDetails handler: data.tripUUIDs
    results,         \* fetchMultipleTripDetails handler: the slots of Promise.all
    detailsResult,   \* fetchMultipleTripDetails handler: the value returned
    receiptFn,       \* which receipt server function was called
    rpc,             \* receipt handler: where the call stands
    trips,           \* receipt handler: data.trips (one trip for fetchReceiptPdf)
    pdfs,            \* receipt handler: per trip, where its callback stands
    netCalls,        \* per trip, the network calls its callback has made, in order
    firstSettled,    \* the trip whose callback returned first (0: none yet)
    serverLog,       \* console.warn / console.error calls of the receipt handler
    receiptsResult,  \* receipt handler: the value returned
    exportFn,        \* which download handler runs
    epc,             \* where the run of the download handler stands
    isDownloading,   \* dashboard state
    validPdfs,       \* download handler local
    downloads,       \* the files handed to the browser by downloadBlob, in order
    statusFilter,    \* dashboard state: "all" | "COMPLETED"
    pdfSummary,      \* handleDownloadSummaryPdf: the summary it renders
    callFn,          \* a pure function under study: which one is applied
    callArg,         \* its argument
    callRet,         \* what it returned, once it has
    cachedFontBytes, \* pdf-utils module state: the font, or null
    fontFetches,     \* the render calls that requested the font file, in order
    renders,         \* the calls of loadGoogleSansFont, one per render call
    localStorage,    \* browser storage: the item under the key "uber_auth"
    user,            \* dashboard state: UberCurrentUser | null
    mount,           \* the mount effect of the dashboard: where it stands
    modal,           \* AuthSetupModal: isLoading, error, and the call of handleSubmit
    fetchRuns        \* every call of handleFetchRides in the life of the page, in order

dashVars == <<auth, dateFrom, rides, isLoadingRides, hasSearched, rowSelection, fetchProgress>>
runVars == <<pc, allActivities, pageToken, pageCount, tripUUIDs, i, batch, enrichedRides>>
envVars == <<cursor, pageRequests, pageResponses, detailCalls, detailReturns, inFlight, console>>
handlerVars == <<dpc, data, results, detailsResult>>
receiptVars == <<receiptFn, rpc, trips, pdfs, netCalls, firstSettled, serverLog, receiptsResult>>
exportVars == <<exportFn, epc, isDownloading, validPdfs, downloads>>
viewVars == <<statusFilter, pdfSummary>>
callVars == <<callFn, callArg, callRet>>
fontVars == <<cachedFontBytes, fontFetches, renders>>
sessionVars == <<localStorage, user, mount, modal, fetchRuns>>
vars == <<dashVars, runVars, envVars, handlerVars, receiptVars, exportVars, viewVars, callVars,
         fontVars, sessionVars>>

NoResult == [rides |-> <<>>, errors |-> <<>>]
NoReceipts == [pdfs |-> <<>>]

\* no receipt server function has been called
ReceiptsAtRest ==
    /\ receiptFn = "none"
    /\ rpc = "idle"
    /\ trips = <<>>
    /\ pdfs = <<>>
    /\ netCalls = <<>>
    /\ firstSettled = 0
    /\ serverLog = {}
    /\ receiptsResult = NoReceipts

\* the status filter is at its default, no summary is being rendered
ViewAtRest ==
    /\ statusFilter = "COMPLETED"
    /\ pdfSummary = <<>>

\* what a function under study has returned, if it has
NotReturned == [returned |-> FALSE]
Returned(value) == [returned |-> TRUE, value |-> value]

\* the module has just been loaded: no font cached, no render call made
FontAtRest ==
    /\ cachedFontBytes = "null"
    /\ fontFetches = <<>>
    /\ renders = <<>>

\* localStorage.getItem gives null: no item under the key
NoItem == <<>>

\* useState<UberCurrentUser | null>(null)
NullUser == [isNull |-> TRUE, firstName |-> UNDEFINED]

\* the mount effect: where it stands, what the provider answered to its lookup,
\* and the parsedAuth it closed over
Mount(at, answer, parsedAuth) == [at |-> at, answer |-> answer, auth |-> parsedAuth]

\* AuthSetupModal: its state isLoading and error, the credentials handleSubmit
\* built from the cookie field, and where the call of handleSubmit stands
Modal(at, isLoading, error, credentials) ==
    [at |-> at, isLoading |-> isLoading, error |-> error, auth |-> credentials]

\* the page is not mounted yet, the modal has not been used, nothing was fetched
SessionAtRest ==
    /\ localStorage = NoItem
    /\ user = NullUser
    /\ mount = Mount("unmounted", "none", NullAuth)
    /\ modal = Modal("idle", FALSE, NULL, NullAuth)
    /\ fetchRuns = <<>>

\* no pure function is under study
CallsAtRest ==
    /\ callFn = "none"
    /\ callArg = <<>>
    /\ callRet = NotReturned

\* no download has been started
ExportAtRest ==
    /\ exportFn = "none"
    /\ epc = "idle"
    /\ isDownloading = FALSE
    /\ validPdfs = <<>>
    /\ downloads = <<>>

\* The dashboard at rest before a fetch: auth is what the auth modal or the
\* mount effect left (null, complete, or a stored object lacking a field).
Init ==
    /\ auth \in AuthValues
    /\ dateFrom \in BOOLEAN
    /\ rides = <<>>
    /\ isLoadingRides = FALSE
    /\ hasSearched = FALSE
    /\ rowSelection = {}
    /\ fetchProgress = <<>>
    /\ pc = "idle"
    /\ allActivities = <<>>
    /\ pageToken = UNDEFINED
    /\ pageCount = 0
    /\ tripUUIDs = <<>>
    /\ i = 0
    /\ batch = <<>>
    /\ enrichedRides = <<>>
    /\ cursor = TopId
    /\ pageRequests = <<>>
    /\ pageResponses = <<>>
    /\ detailCalls = <<>>
    /\ detailReturns = <<>>
    /\ inFlight = 0
    /\ console = <<>>
    /\ dpc = "idle"
    /\ data = <<>>
    /\ results = <<>>
    /\ detailsResult = NoResult
    /\ ReceiptsAtRest
    /\ ExportAtRest
    /\ ViewAtRest
    /\ CallsAtRest
    /\ FontAtRest
    /\ SessionAtRest


\* ------------------------------------------------------- handleFetchRides
\* faulty variant of Finally: the loading flag is left as it is
Finally_KeepsLoading ==
    /\ isLoadingRides' = isLoadingRides
    /\ pc' = "returned"

\* finally { setIsLoadingRides(false) } and the end of the run
Finally ==
    /\ isLoadingRides' = FALSE
    /\ pc' = "returned"

\* catch (error) { console.error(...); setFetchProgress("") } finally {...}
Caught ==
    /\ console' = Append(console, "Failed to fetch rides")
    /\ fetchProgress' = <<>>
    /\ Finally

\* One turn of the batch loop up to its await: slice the batch, report
\* progress, call fetchMultipleTripDetails (one getTrip request per identifier).
IssueBatch(ids, start) ==
    /\ batch' = BatchSlice(ids, start)
    /\ fetchProgress' = <<"Fetching trip details", Min(start + batchSize, Len(ids)), Len(ids)>>
    /\ detailCalls' = Append(detailCalls, batch')
    /\ inFlight' = inFlight + Len(batch')
    /\ pc' = "await_details"

\* Lines 845-884 up to the first await: what follows the pager loop.
AfterPager(all) ==
    IF Len(all) > 0
    THEN /\ tripUUIDs' = RideIds(all)
         /\ enrichedRides' = <<>>
         /\ i' = 0
         /\ IssueBatch(RideIds(all), 0)
         /\ UNCHANGED <<rides, isLoadingRides>>
    ELSE /\ rides' = <<>>
         /\ fetchProgress' = <<>>
         /\ Finally
         /\ UNCHANGED <<tripUUIDs, enrichedRides, i, batch, detailCalls, inFlight>>

\* One turn of the pager loop up to its await: count the page, report
\* progress, call fetchActivities with the current token.
IssuePage(count, token, accumulated) ==
    /\ pageCount' = count
    /\ fetchProgress' = <<"Fetching activities", count, Len(accumulated)>>
    /\ pageRequests' = Append(pageRequests,
                              buildActivitiesVariables([limit |-> limit, nextPageToken |-> token]))
    /\ pc' = "await_page"

\* faulty variant of OnPageError: the failed page is requested again
OnPageError_Retry(all) ==
    /\ console' = Append(console, "Failed to fetch activities")
    /\ allActivities' = all
    /\ IssuePage(pageCount + 1, pageToken, all)
    /\ UNCHANGED <<pageToken, rides, isLoadingRides, tripUUIDs, enrichedRides, i, batch,
                   detailCalls, inFlight>>

\* if (result.error) { console.error(...); break; } and what follows the loop
OnPageError(all) ==
    /\ console' = Append(console, "Failed to fetch activities")
    /\ allActivities' = all
    /\ AfterPager(all)
    /\ UNCHANGED <<pageToken, pageCount, pageRequests>>

\* handleFetchRides from the click to the first await (lines 793-828)
HandleFetchRides ==
    /\ pc = "idle"
    /\ IF auth.isNull \/ ~dateFrom
       THEN UNCHANGED vars
       ELSE /\ isLoadingRides' = TRUE
            /\ rowSelection' = {}
            /\ hasSearched' = TRUE
            /\ allActivities' = <<>>
            /\ pageToken' = UNDEFINED
            /\ IssuePage(1, UNDEFINED, <<>>)
            /\ UNCHANGED <<auth, dateFrom, rides, tripUUIDs, i, batch, enrichedRides,
                           cursor, pageResponses, detailCalls, detailReturns, inFlight,
                           console, handlerVars, viewVars, callVars, fontVars, sessionVars, receiptVars, exportVars>>

\* The fetchActivities call is rejected by its inputValidator: the await throws.
FetchActivitiesRejected ==
    /\ pc = "await_page"
    /\ AuthRejected(auth)
    /\ Caught
    /\ UNCHANGED <<auth, dateFrom, rides, hasSearched, rowSelection, allActivities,
                   pageToken, pageCount, tripUUIDs, i, batch, enrichedRides, cursor,
                   pageRequests, pageResponses, detailCalls, detailReturns, inFlight,
                   handlerVars, viewVars, callVars, fontVars, sessionVars, receiptVars, exportVars>>

\* What the provider may answer to the request in flight: a failure, or a page
\* of n rides from its cursor on (or from one ride back: the listing moved
\* between the two requests), with a token only while it has pages left.
PageResults ==
    {PageFailed} \cup
    { PageOk(PageActivities(start, n), tok) :
        start \in {cursor} \cup (IF cursor < TopId THEN {cursor + 1} ELSE {}),
        n \in PageLens,
        tok \in StopTokens \cup (IF pageCount < MaxPages THEN Tokens ELSE {}) }

\* the provider's cursor after it served `result`
CursorAfter(result) ==
    IF Len(result.activities) = 0 THEN cursor
    ELSE result.activities[Len(result.activities)].rideId - 1

\* The await of fetchActivities resumes with `result` (lines 830-843), and the
\* run goes on to its next await or to its end.
FetchActivitiesReturned(result) ==
    /\ pc = "await_page"
    /\ ~AuthRejected(auth)
    /\ pageResponses' = Append(pageResponses, result)
    /\ cursor' = CursorAfter(result)
    /\ IF Truthy(result.error)
       THEN OnPageError(allActivities)
       ELSE /\ allActivities' = PushAll(allActivities, result.activities)
            /\ console' = console
            /\ IF NoMorePages(result)
               THEN /\ AfterPager(allActivities')
                    /\ UNCHANGED <<pageToken, pageCount, pageRequests>>
               ELSE /\ pageToken' = result.nextPageToken
                    /\ IssuePage(pageCount + 1, result.nextPageToken, allActivities')
                    /\ UNCHANGED <<rides, isLoadingRides, tripUUIDs, enrichedRides, i,
                                   batch, detailCalls, inFlight>>
    /\ UNCHANGED <<auth, dateFrom, hasSearched, rowSelection, detailReturns, handlerVars, viewVars, callVars, fontVars, sessionVars, receiptVars, exportVars>>

\* One getTrip request of the batch in flight settles, in the try branch or in
\* the catch branch of its callback; which one shows when the call returns.
DetailRequestSettled ==
    /\ pc = "await_details"
    /\ inFlight > 0
    /\ inFlight' = inFlight - 1
    /\ UNCHANGED <<dashVars, runVars, cursor, pageRequests, pageResponses, detailCalls,
                   detailReturns, console, handlerVars, viewVars, callVars, fontVars, sessionVars, receiptVars, exportVars>>

\* faulty variant of PromiseAll: the first settled request resolves the call
PromiseAll_Race(pending, total) == pending < total

\* await Promise.all(...): resolved once no request of the call is pending
PromiseAll(pending, total) == pending = 0

\* The await of fetchMultipleTripDetails resumes (lines 870-884): the handler
\* has settled every request of the batch (Promise.all) and split the results.
FetchDetailsReturned(failing) ==
    /\ pc = "await_details"
    /\ DetailsRejected(auth, batch) \/ PromiseAll(inFlight, Len(batch))
    /\ IF DetailsRejected(auth, batch)
       THEN /\ Caught
            /\ UNCHANGED <<rides, enrichedRides, i, batch, detailCalls, detailReturns,
                           inFlight>>
       ELSE LET res == [k \in 1..Len(batch) |-> RequestOutcome(batch[k], k \notin failing)]
                ret == SplitResults(res)
                next == i + batchSize
            IN  /\ detailReturns' = Append(detailReturns, ret)
                /\ enrichedRides' =
                       IF Len(ret.rides) > 0
                       THEN PushAll(enrichedRides, ret.rides)
                       ELSE PushAll(enrichedRides, FilterByRideId(allActivities, batch))
                /\ i' = next
                /\ console' = console
                /\ IF next < Len(tripUUIDs)
                   THEN /\ IssueBatch(tripUUIDs, next)
                        /\ UNCHANGED <<rides, isLoadingRides>>
                   ELSE /\ rides' = enrichedRides'
                        /\ fetchProgress' = <<>>
                        /\ Finally
                        /\ UNCHANGED <<batch, detailCalls, inFlight>>
    /\ UNCHANGED <<auth, dateFrom, hasSearched, rowSelection, allActivities, pageToken,
                   pageCount, tripUUIDs, cursor, pageRequests, pageResponses, handlerVars, viewVars, callVars, fontVars, sessionVars, receiptVars, exportVars>>

Next ==
    \/ HandleFetchRides
    \/ FetchActivitiesRejected
    \/ \E result \in PageResults : FetchActivitiesReturned(result)
    \/ DetailRequestSettled
    \/ \E failing \in FailSets(Len(batch)) : FetchDetailsReturned(failing)

Spec == Init /\ [][Next]_vars

\* ------------------------------- fetchMultipleTripDetails, one call alone
DetailIds == 1..MaxUUIDs
UUIDLists == UNION {[1..n -> DetailIds] : n \in 0..MaxUUIDs}

InitDetails ==
    /\ auth \in AuthValues
    /\ dateFrom = TRUE
    /\ rides = <<>>
    /\ isLoadingRides = FALSE
    /\ hasSearched = FALSE
    /\ rowSelection = {}
    /\ fetchProgress = <<>>
    /\ pc = "idle"
    /\ allActivities = <<>>
    /\ pageToken = UNDEFINED
    /\ pageCount = 0
    /\ tripUUIDs = <<>>
    /\ i = 0
    /\ batch = <<>>
    /\ enrichedRides = <<>>
    /\ cursor = TopId
    /\ pageRequests = <<>>
    /\ pageResponses = <<>>
    /\ detailCalls = <<>>
    /\ detailReturns = <<>>
    /\ inFlight = 0
    /\ console = <<>>
    /\ dpc = "idle"
    /\ data = <<>>
    /\ results = <<>>
    /\ detailsResult = NoResult
    /\ ReceiptsAtRest
    /\ ExportAtRest
    /\ ViewAtRest
    /\ CallsAtRest
    /\ FontAtRest
    /\ SessionAtRest

\* the slots of `results` whose request has not settled
PendingSlots == {k \in 1..Len(results) : ~results[k].settled}

\* The call: the inputValidator, then tripUUIDs.map starts one request per
\* identifier, all before the first of them settles.
DetailsCalled(ids) ==
    /\ dpc = "idle"
    /\ data' = ids
    /\ IF DetailsRejected(auth, ids)
       THEN /\ dpc' = "rejected"
            /\ UNCHANGED results
       ELSE /\ dpc' = "pending"
            /\ results' = [k \in 1..Len(ids) |-> Pending]
    /\ UNCHANGED <<dashVars, runVars, envVars, viewVars, callVars, fontVars, sessionVars, receiptVars, exportVars, detailsResult>>

\* The request of slot k settles: uberGraphQL returned (ok) or threw.
SlotSettled(k, ok) ==
    /\ dpc = "pending"
    /\ k \in PendingSlots
    /\ results' = [results EXCEPT ![k] = RequestOutcome(data[k], ok)]
    /\ UNCHANGED <<dashVars, runVars, envVars, viewVars, callVars, fontVars, sessionVars, receiptVars, exportVars, dpc, data, detailsResult>>

\* Promise.all resolves; the results are split and returned (lines 1640-1651).
DetailsReturned ==
    /\ dpc = "pending"
    /\ PromiseAll(Cardinality(PendingSlots), Len(results))
    /\ detailsResult' = SplitResults(results)
    /\ dpc' = "returned"
    /\ UNCHANGED <<dashVars, runVars, envVars, viewVars, callVars, fontVars, sessionVars, receiptVars, exportVars, data, results>>

NextDetails ==
    \/ \E ids \in UUIDLists : DetailsCalled(ids)
    \/ \E k \in 1..Len(results), ok \in BOOLEAN : SlotSettled(k, ok)
    \/ DetailsReturned

SpecDetails == InitDetails /\ [][NextDetails]_vars

\* ------------------- fetchReceiptPdf / fetchMultipleReceiptPdfs, one call
TripIds == {"t1", "t2"}
Now == "now"                       \* Date.now(): the time of the call, in ms

\* every other state variable at rest, as the dashboard holds it before a fetch
FetchAtRest ==
    /\ rides = <<>>
    /\ isLoadingRides = FALSE
    /\ hasSearched = FALSE
    /\ rowSelection = {}
    /\ fetchProgress = <<>>
    /\ pc = "idle"
    /\ allActivities = <<>>
    /\ pageToken = UNDEFINED
    /\ pageCount = 0
    /\ tripUUIDs = <<>>
    /\ i = 0
    /\ batch = <<>>
    /\ enrichedRides = <<>>
    /\ cursor = TopId
    /\ pageRequests = <<>>
    /\ pageResponses = <<>>
    /\ detailCalls = <<>>
    /\ detailReturns = <<>>
    /\ inFlight = 0
    /\ console = <<>>
    /\ dpc = "idle"
    /\ data = <<>>
    /\ results = <<>>
    /\ detailsResult = NoResult

\* data.trips of fetchMultipleReceiptPdfs
TripLists == UNION {[1..n -> [tripUUID : TripIds, isAutoRide : BOOLEAN]] : n \in 0..MaxTrips}

\* the data of fetchReceiptPdf, as a list of one trip; tripUUID may be empty
SingleTrips == {<<t>> : t \in [tripUUID : TripIds \cup {EmptyString}, isAutoRide : BOOLEAN]}

\* let pdfUrl: string = ""
NoUrl == [kind |-> "", tripUUID |-> "", timestamp |-> "", file |-> 0]

\* `https://riders.uber.com/trips/${tripUUID}/receipt?contentType=PDF&timestamp=${timestamp}`
ReceiptUrl(tripUUID, timestamp) ==
    [kind |-> "receipt", tripUUID |-> tripUUID, timestamp |-> timestamp, file |-> 0]

\* the downloadURL the provider gives for the n-th invoice file of a trip
InvoiceUrl(tripUUID, n) ==
    [kind |-> "invoice", tripUUID |-> tripUUID, timestamp |-> "", file |-> n]

\* How the try block around the invoice request ends: it threw (the request
\* failed, or the response had no data.invoiceFiles), or it read `files`,
\* which may be absent (hasFiles FALSE), empty, or hold download URLs.
InvoiceThrew == [threw |-> TRUE, hasFiles |-> FALSE, files |-> <<>>]
InvoiceFiles(hasFiles, files) == [threw |-> FALSE, hasFiles |-> hasFiles, files |-> files]
InvoiceResponses(tripUUID) ==
    {InvoiceThrew, InvoiceFiles(FALSE, <<>>), InvoiceFiles(TRUE, <<>>)} \cup
    { InvoiceFiles(TRUE, [k \in 1..n |-> [downloadURL |-> InvoiceUrl(tripUUID, k)]]) : n \in 1..2 }
AllInvoiceResponses == UNION {InvoiceResponses(id) : id \in TripIds}

\* the network calls of a callback: uberGraphQL(GET_INVOICE_FILES_QUERY), fetch(pdfUrl)
InvoiceRequest(tripUUID) == [call |-> "invoiceFiles", tripUUID |-> tripUUID, url |-> NoUrl]
PdfFetch(url) == [call |-> "pdf", tripUUID |-> url.tripUUID, url |-> url]

\* faulty variant of UsesDirectUrl: the invoice listing is asked for every trip
UsesDirectUrl_Never(trip) == FALSE

\* if (trip.isAutoRide)
UsesDirectUrl(trip) == trip.isAutoRide

\* faulty variant of ChoosePdfUrl: the last invoice file is taken, and a
\* listing without files leaves the URL empty
ChoosePdfUrl_Last(trip, inv, timestamp) ==
    IF inv.threw THEN ReceiptUrl(trip.tripUUID, timestamp)
    ELSE IF ~inv.hasFiles \/ Len(inv.files) = 0 THEN NoUrl
    ELSE inv.files[Len(inv.files)].downloadURL

\* lines 1786-1806: the URL chosen once the invoice request has settled
ChoosePdfUrl(trip, inv, timestamp) ==
    LET useReceiptFallback == inv.threw \/ ~inv.hasFiles \/ Len(inv.files) = 0
    IN  IF useReceiptFallback THEN ReceiptUrl(trip.tripUUID, timestamp)
        ELSE inv.files[1].downloadURL

\* faulty variant of IssuePdfFetch: the fetch is sent a second time
IssuePdfFetch_Twice(calls, url) == calls \o <<PdfFetch(url), PdfFetch(url)>>

\* const pdfResponse = await fetch(pdfUrl, ...): the request goes out
IssuePdfFetch(calls, url) == Append(calls, PdfFetch(url))

\* the body served for a document: a PDF of `pages` pages, or bytes that are no PDF
PdfBody(src, pages, malformed) == [src |-> src, pages |-> pages, malformed |-> malformed]

\* pdfBase64: string | null
NullPdf == [isNull |-> TRUE, base64 |-> PdfBody(NoUrl, 0, TRUE)]

\* Buffer.from(pdfBuffer).toString("base64")
Base64(body) == [isNull |-> FALSE, base64 |-> body]

\* How the fetch of pdfUrl ends: a response that is ok with its body, a
\* response that is not ok, or a rejected fetch.
PdfResponses(url) ==
    { [ok |-> TRUE, rejected |-> FALSE, body |-> PdfBody(url, 1, FALSE)] } \cup
    { [ok |-> FALSE, rejected |-> r, body |-> PdfBody(url, 0, TRUE)] : r \in BOOLEAN }
AllPdfUrls ==
    {ReceiptUrl(id, Now) : id \in TripIds} \cup
    {InvoiceUrl(id, n) : id \in TripIds, n \in 1..2}
AllPdfResponses == UNION {PdfResponses(url) : url \in AllPdfUrls}

\* the return of the try branch and of the catch branch of a callback
PdfOk(fn, trip, base64) ==
    IF fn = "fetchMultipleReceiptPdfs"
    THEN [rideId |-> trip.tripUUID, pdfBase64 |-> base64, error |-> UNDEFINED]
    ELSE [pdfBase64 |-> base64, error |-> UNDEFINED]
PdfFailed(fn, trip, message) ==
    IF fn = "fetchMultipleReceiptPdfs"
    THEN [rideId |-> trip.tripUUID, pdfBase64 |-> NullPdf, error |-> message]
    ELSE [pdfBase64 |-> NullPdf, error |-> message]

\* faulty variant of PdfOutcome: fetchMultipleReceiptPdfs does not test response.ok
PdfOutcome_MultiSkipsOk(fn, trip, response) ==
    IF response.rejected THEN PdfFailed(fn, trip, "fetch failed")
    ELSE IF ~response.ok /\ fn = "fetchReceiptPdf" THEN PdfFailed(fn, trip, "Failed to fetch PDF")
    ELSE PdfOk(fn, trip, Base64(response.body))

\* what a settled fetch makes of the callback: lines 1809-1829
PdfOutcome(fn, trip, response) ==
    IF response.rejected THEN PdfFailed(fn, trip, "fetch failed")
    ELSE IF ~response.ok THEN PdfFailed(fn, trip, "Failed to fetch PDF")
    ELSE PdfOk(fn, trip, Base64(response.body))

\* faulty variant of ReceiptsRejected: only the credential is checked
ReceiptsRejected_AuthOnly(fn, a, ts) == AuthRejected(a)

\* inputValidator of fetchReceiptPdf and of fetchMultipleReceiptPdfs
ReceiptsRejected(fn, a, ts) ==
    \/ AuthRejected(a)
    \/ fn = "fetchMultipleReceiptPdfs" /\ Len(ts) = 0
    \/ fn = "fetchReceiptPdf" /\ ~Truthy(ts[1].tripUUID)

\* one callback: stage is "invoice", "fetching" or "settled"; invoice and
\* result are <<>> until they are there
Slot(stage, url, invoice, result) ==
    [stage |-> stage, pdfUrl |-> url, invoice |-> invoice, result |-> result]

\* a callback from its start to its first await
StartTrip(trip, timestamp) ==
    IF UsesDirectUrl(trip)
    THEN Slot("fetching", ReceiptUrl(trip.tripUUID, timestamp), <<>>, <<>>)
    ELSE Slot("invoice", NoUrl, <<>>, <<>>)
FirstCall(trip, timestamp) ==
    IF UsesDirectUrl(trip)
    THEN IssuePdfFetch(<<>>, ReceiptUrl(trip.tripUUID, timestamp))
    ELSE <<InvoiceRequest(trip.tripUUID)>>

\* the callbacks that have not returned
UnsettledTrips == {k \in 1..Len(pdfs) : pdfs[k].stage # "settled"}

\* faulty variant of PromiseAllResults: the first callback to return comes first
PromiseAllResults_FirstSettled(slots) ==
    IF firstSettled = 0 THEN [k \in 1..Len(slots) |-> slots[k].result[1]]
    ELSE <<slots[firstSettled].result[1]>> \o
         [k \in 1..(Len(slots) - 1) |->
             slots[IF k < firstSettled THEN k ELSE k + 1].result[1]]

\* Promise.all: the values of the callbacks, by position
PromiseAllResults(slots) == [k \in 1..Len(slots) |-> slots[k].result[1]]

\* The call: the inputValidator, then data.trips.map runs every callback to its
\* first await (fetchReceiptPdf: the one body of the handler).
ReceiptsCalled(fn, ts) ==
    /\ rpc = "idle"
    /\ receiptFn' = fn
    /\ trips' = ts
    /\ IF ReceiptsRejected(fn, auth, ts)
       THEN /\ rpc' = "rejected"
            /\ UNCHANGED <<pdfs, netCalls>>
       ELSE /\ rpc' = "pending"
            /\ pdfs' = [k \in 1..Len(ts) |-> StartTrip(ts[k], Now)]
            /\ netCalls' = [k \in 1..Len(ts) |-> FirstCall(ts[k], Now)]
    /\ UNCHANGED <<dashVars, runVars, envVars, handlerVars, viewVars, callVars, fontVars, sessionVars, exportVars,
                   firstSettled, serverLog, receiptsResult>>

\* The invoice request of trip k settles; the URL is chosen and fetched.
InvoiceSettled(k, inv) ==
    /\ rpc = "pending"
    /\ k \in 1..Len(pdfs)
    /\ pdfs[k].stage = "invoice"
    /\ inv \in InvoiceResponses(trips[k].tripUUID)
    /\ LET url == ChoosePdfUrl(trips[k], inv, Now)
       IN  /\ pdfs' = [pdfs EXCEPT ![k] = Slot("fetching", url, <<inv>>, <<>>)]
           /\ netCalls' = [netCalls EXCEPT ![k] = IssuePdfFetch(netCalls[k], url)]
    /\ serverLog' = IF inv.threw
                    THEN serverLog \cup {<<"Invoice fetch failed", trips[k].tripUUID>>}
                    ELSE serverLog
    /\ UNCHANGED <<dashVars, runVars, envVars, handlerVars, viewVars, callVars, fontVars, sessionVars, exportVars,
                   receiptFn, rpc, trips, firstSettled, receiptsResult>>

\* The fetch of the document of trip k settles; the callback returns.
PdfFetchSettled(k, response) ==
    /\ rpc = "pending"
    /\ k \in 1..Len(pdfs)
    /\ pdfs[k].stage = "fetching"
    /\ response \in PdfResponses(pdfs[k].pdfUrl)
    /\ pdfs' = [pdfs EXCEPT ![k] = Slot("settled", pdfs[k].pdfUrl, pdfs[k].invoice,
                                        <<PdfOutcome(receiptFn, trips[k], response)>>)]
    /\ firstSettled' = IF firstSettled = 0 THEN k ELSE firstSettled
    /\ serverLog' = IF receiptFn = "fetchReceiptPdf" /\ (response.rejected \/ ~response.ok)
                    THEN serverLog \cup {<<"Failed to fetch receipt PDF", trips[k].tripUUID>>}
                    ELSE serverLog
    /\ UNCHANGED <<dashVars, runVars, envVars, handlerVars, viewVars, callVars, fontVars, sessionVars, exportVars,
                   receiptFn, rpc, trips, netCalls, receiptsResult>>

\* Every callback has returned: return { pdfs } (fetchReceiptPdf: the one result).
ReceiptsReturned ==
    /\ rpc = "pending"
    /\ UnsettledTrips = {}
    /\ receiptsResult' = IF receiptFn = "fetchMultipleReceiptPdfs"
                         THEN [pdfs |-> PromiseAllResults(pdfs)]
                         ELSE pdfs[1].result[1]
    /\ rpc' = "returned"
    /\ UNCHANGED <<dashVars, runVars, envVars, handlerVars, viewVars, callVars, fontVars, sessionVars, exportVars,
                   receiptFn, trips, pdfs, netCalls, firstSettled, serverLog>>

InitReceipts ==
    /\ auth \in AuthValues
    /\ dateFrom = TRUE
    /\ FetchAtRest
    /\ ReceiptsAtRest
    /\ ExportAtRest
    /\ ViewAtRest
    /\ CallsAtRest
    /\ FontAtRest
    /\ SessionAtRest

NextReceipts ==
    \/ \E ts \in TripLists : ReceiptsCalled("fetchMultipleReceiptPdfs", ts)
    \/ \E ts \in SingleTrips : ReceiptsCalled("fetchReceiptPdf", ts)
    \/ \E k \in 1..Len(pdfs), inv \in AllInvoiceResponses : InvoiceSettled(k, inv)
    \/ \E k \in 1..Len(pdfs), response \in AllPdfResponses : PdfFetchSettled(k, response)
    \/ ReceiptsReturned

SpecReceipts == InitReceipts /\ [][NextReceipts]_vars

\* -------------------- handleDownloadReport / handleDownloadInvoices, one run
\* the rides of the table when the download starts: the last one was canceled
ExportRide(k) ==
    [rideId |-> k, isAutoRide |-> k % 2 = 1,
     status |-> IF k = MaxRides THEN "CANCELED" ELSE "COMPLETED",
     totalAmount |-> Num(100, <<>>), currency |-> "INR"]
ExportRides == [k \in 1..MaxRides |-> ExportRide(k)]

\* filteredRides: rides.filter((ride) => ride.status === statusFilter)
filteredRides == SelectSeq(rides, LAMBDA ride : statusFilter = "all" \/ ride.status = statusFilter)

\* summary: the selected rides of filteredRides, in the order of the table
\* the literal of line 765, as the source file spells it
DefaultCurrency == "<U+00E2><U+201A><U+00B9>"

\* selectedRides.reduce((sum, ride) => sum + ride.totalAmount, 0)
RECURSIVE SumAmounts(_, _)
SumAmounts(sum, selected) ==
    IF selected = <<>> THEN sum
    ELSE SumAmounts(Add(sum, Head(selected).totalAmount), Tail(selected))

\* faulty variant of summary: the total and the currency are taken before the
\* filter and the selection are applied
summary_Unfiltered ==
    LET selectedRides == SelectSeq(filteredRides, LAMBDA ride : ride.rideId \in rowSelection)
    IN  [selectedCount |-> Len(selectedRides),
         totalAmount   |-> SumAmounts(Zero, rides),
         currency      |-> IF rides # <<>> /\ Truthy(rides[1].currency)
                           THEN rides[1].currency ELSE DefaultCurrency,
         rides         |-> selectedRides]

\* summary: the selected rides of filteredRides, in the order of the table
summary ==
    LET selectedRides == SelectSeq(filteredRides, LAMBDA ride : ride.rideId \in rowSelection)
    IN  [selectedCount |-> Len(selectedRides),
         totalAmount   |-> SumAmounts(Zero, selectedRides),
         currency      |-> IF selectedRides # <<>> /\ Truthy(selectedRides[1].currency)
                           THEN selectedRides[1].currency ELSE DefaultCurrency,
         rides         |-> selectedRides]

\* summary.rides.map((ride) => ({ tripUUID: ride.rideId, isAutoRide: ride.isAutoRide }))
TripsOf(selected) ==
    [k \in 1..Len(selected) |->
        [tripUUID |-> selected[k].rideId, isAutoRide |-> selected[k].isAutoRide]]

\* What the callback of a trip may return: the document as a PDF of one page or
\* of MaxDocPages pages, a payload that is no PDF, or a failed fetch.
TripResults(trip) ==
    { PdfOk("fetchMultipleReceiptPdfs", trip, Base64(PdfBody(trip.tripUUID, n, FALSE))) :
        n \in {1, MaxDocPages} } \cup
    { PdfOk("fetchMultipleReceiptPdfs", trip, Base64(PdfBody(trip.tripUUID, 0, TRUE))),
      PdfFailed("fetchMultipleReceiptPdfs", trip, "Failed to fetch PDF") }
AllTripResults == UNION {TripResults(t) : t \in Range(TripsOf(ExportRides))}

\* pdfs.filter((pdf) => pdf.pdfBase64 !== null)
FilterValid(arr) == SelectSeq(arr, LAMBDA pdf : ~pdf.pdfBase64.isNull)

\* atob(pdfData.pdfBase64) as bytes
Atob(base64) == base64.base64

\* pages of the merged document
CoverPage(n) == [kind |-> "cover", src |-> 0, no |-> n]
DocumentPage(src, n) == [kind |-> "document", src |-> src, no |-> n]
BlankPage == [kind |-> "blank", src |-> 0, no |-> 1]

\* the summary pages generated by jsPDF: doc.getNumberOfPages() of them
CoverPages(n) == [k \in 1..n |-> CoverPage(k)]

\* PDFDocument.load(pdfBytes) throws on bytes that are no PDF
LoadThrows(bytes) == bytes.malformed

\* mergedPdf.copyPages(pdfToMerge, pdfToMerge.getPageIndices())
CopyPages(bytes) == [k \in 1..bytes.pages |-> DocumentPage(bytes.src, k)]

\* faulty variant of MergeLoop: the first document that fails ends the loop
RECURSIVE MergeLoop_Abort(_)
MergeLoop_Abort(arr) ==
    IF arr = <<>> THEN <<>>
    ELSE IF LoadThrows(Atob(Head(arr).pdfBase64)) THEN <<>>
    ELSE CopyPages(Atob(Head(arr).pdfBase64)) \o MergeLoop_Abort(Tail(arr))

\* for (const pdfData of pdfDataArray) { try { load, copyPages, addPage } catch {} }
RECURSIVE MergeLoop(_)
MergeLoop(arr) ==
    IF arr = <<>> THEN <<>>
    ELSE (IF LoadThrows(Atob(Head(arr).pdfBase64)) THEN <<>>
          ELSE CopyPages(Atob(Head(arr).pdfBase64))) \o MergeLoop(Tail(arr))

\* the console.error calls of the catch inside the merge loop
RECURSIVE MergeErrors(_)
MergeErrors(arr) ==
    IF arr = <<>> THEN <<>>
    ELSE (IF LoadThrows(Atob(Head(arr).pdfBase64))
          THEN <<<<"Failed to merge PDF for ride", Head(arr).rideId>>>> ELSE <<>>)
         \o MergeErrors(Tail(arr))

\* mergedPdf.save(): pdf-lib adds one blank page to a document without pages
Save(pages) == IF pages = <<>> THEN <<BlankPage>> ELSE pages

\* faulty variant of generateSummaryPdf: the summary pages are added last
generateSummaryPdf_CoverLast(coverLen, pdfDataArray) ==
    IF Len(pdfDataArray) = 0 THEN CoverPages(coverLen)
    ELSE Save(MergeLoop(pdfDataArray) \o CoverPages(coverLen))

\* generateSummaryPdf from line 235 on: the summary alone, or the summary
\* pages followed by the pages of the receipts
generateSummaryPdf(coverLen, pdfDataArray) ==
    IF Len(pdfDataArray) = 0 THEN CoverPages(coverLen)
    ELSE Save(CoverPages(coverLen) \o MergeLoop(pdfDataArray))

\* the rides of pdfSummary, with the fields the rides of this study have
ReportRide(r) ==
    [rideId |-> r.rideId, totalAmount |-> r.totalAmount, currency |-> r.currency,
     status |-> r.status, invoiceUrl |-> ""]

\* faulty variant of ReportSummary: the cover lists the rides with a receipt only
ReportSummary_ValidOnly(s, valid) ==
    LET fetched == SelectSeq(s.rides, LAMBDA r : r.rideId \in Range(RideIds(valid)))
    IN  [selectedCount |-> Len(valid),
         totalAmount   |-> SumAmounts(Zero, fetched),
         currency      |-> s.currency,
         rides         |-> [k \in 1..Len(fetched) |-> ReportRide(fetched[k])]]

\* handleDownloadReport: const pdfSummary = { selectedCount: validPdfs.length, ... }
ReportSummary(s, valid) ==
    [selectedCount |-> Len(valid),
     totalAmount   |-> s.totalAmount,
     currency      |-> s.currency,
     rides         |-> [k \in 1..Len(s.rides) |-> ReportRide(s.rides[k])]]

\* the file handed to downloadBlob; coverRows is what its summary table shows
Artifact(filename, pages, coverRows) ==
    [filename |-> filename, pages |-> pages, coverRows |-> coverRows]

\* finally { setIsDownloading(false) } and the end of the run
ExportFinally ==
    /\ isDownloading' = FALSE
    /\ epc' = "returned"

\* catch (error) { console.error("Failed to download ...") } finally {...}
ExportCaught ==
    /\ console' = Append(console, <<IF exportFn = "handleDownloadReport"
                                    THEN "Failed to download receipts"
                                    ELSE "Failed to download invoices">>)
    /\ ExportFinally

\* The click, up to the await of fetchMultipleReceiptPdfs: its inputValidator
\* runs and every trip's callback starts.
HandleDownload(fn) ==
    /\ epc = "idle"
    /\ IF auth.isNull \/ summary.selectedCount = 0
       THEN UNCHANGED vars
       ELSE /\ isDownloading' = TRUE
            /\ exportFn' = fn
            /\ epc' = "await_pdfs"
            /\ receiptFn' = "fetchMultipleReceiptPdfs"
            /\ trips' = TripsOf(summary.rides)
            /\ IF ReceiptsRejected("fetchMultipleReceiptPdfs", auth, trips')
               THEN /\ rpc' = "rejected"
                    /\ pdfs' = pdfs
               ELSE /\ rpc' = "pending"
                    /\ pdfs' = [k \in 1..Len(trips') |-> Slot("resolving", NoUrl, <<>>, <<>>)]
            /\ UNCHANGED <<dashVars, runVars, envVars, handlerVars, viewVars, callVars, fontVars, sessionVars, netCalls, firstSettled,
                           serverLog, receiptsResult, validPdfs, downloads>>

\* The call was rejected by the inputValidator: the await throws.
FetchPdfsRejected ==
    /\ epc = "await_pdfs"
    /\ rpc = "rejected"
    /\ ExportCaught
    /\ UNCHANGED <<dashVars, runVars, cursor, pageRequests, pageResponses, detailCalls,
                   detailReturns, inFlight, handlerVars, viewVars, callVars, fontVars, sessionVars, receiptVars, exportFn, validPdfs,
                   downloads>>

\* The callback of trip k returns `result` (its steps are those of SpecReceipts).
TripResolved(k, result) ==
    /\ epc = "await_pdfs"
    /\ rpc = "pending"
    /\ k \in UnsettledTrips
    /\ result \in TripResults(trips[k])
    /\ pdfs' = [pdfs EXCEPT ![k] = Slot("settled", NoUrl, <<>>, <<result>>)]
    /\ firstSettled' = IF firstSettled = 0 THEN k ELSE firstSettled
    /\ UNCHANGED <<dashVars, runVars, envVars, handlerVars, viewVars, callVars, fontVars, sessionVars, exportVars,
                   receiptFn, rpc, trips, netCalls, serverLog, receiptsResult>>

\* The await of fetchMultipleReceiptPdfs resumes: the failed entries are
\* filtered out; without a valid entry the run ends, else it goes on to the
\* await of loadGoogleSansFont (report) or of import("pdf-lib") (invoices).
FetchPdfsReturned ==
    /\ epc = "await_pdfs"
    /\ rpc = "pending"
    /\ UnsettledTrips = {}
    /\ receiptsResult' = [pdfs |-> PromiseAllResults(pdfs)]
    /\ rpc' = "returned"
    /\ validPdfs' = FilterValid(receiptsResult'.pdfs)
    /\ IF Len(validPdfs') = 0
       THEN /\ console' = Append(console, <<"No PDFs were successfully fetched">>)
            /\ ExportFinally
       ELSE /\ epc' = "await_load"
            /\ UNCHANGED <<console, isDownloading>>
    /\ UNCHANGED <<dashVars, runVars, cursor, pageRequests, pageResponses, detailCalls,
                   detailReturns, inFlight, handlerVars, viewVars, callVars, fontVars, sessionVars, receiptFn, trips, pdfs, netCalls,
                   firstSettled, serverLog, exportFn, downloads>>

\* The font or the pdf-lib module has loaded, or failed to.  Loaded: the
\* summary is generated (report), the receipts are merged, the file is saved
\* and handed to downloadBlob.
LoadSettled(ok, coverLen) ==
    /\ epc = "await_load"
    /\ IF ~ok
       THEN /\ ExportCaught
            /\ UNCHANGED downloads
       ELSE /\ downloads' = Append(downloads,
                   IF exportFn = "handleDownloadReport"
                   THEN Artifact("uber_expenses", generateSummaryPdf(coverLen, validPdfs),
                                 ReportSummary(summary, validPdfs))
                   ELSE Artifact("uber_invoices", Save(MergeLoop(validPdfs)), <<>>))
            /\ console' = console \o MergeErrors(validPdfs)
            /\ ExportFinally
    /\ UNCHANGED <<dashVars, runVars, cursor, pageRequests, pageResponses, detailCalls,
                   detailReturns, inFlight, handlerVars, viewVars, callVars, fontVars, sessionVars, receiptVars, exportFn, validPdfs>>

InitExport ==
    /\ auth \in AuthValues
    /\ dateFrom = TRUE
    /\ rides = ExportRides
    /\ isLoadingRides = FALSE
    /\ hasSearched = TRUE
    /\ rowSelection \in SUBSET (1..MaxRides)
    /\ fetchProgress = <<>>
    /\ pc = "returned"
    /\ allActivities = <<>>
    /\ pageToken = UNDEFINED
    /\ pageCount = 0
    /\ tripUUIDs = <<>>
    /\ i = 0
    /\ batch = <<>>
    /\ enrichedRides = <<>>
    /\ cursor = TopId
    /\ pageRequests = <<>>
    /\ pageResponses = <<>>
    /\ detailCalls = <<>>
    /\ detailReturns = <<>>
    /\ inFlight = 0
    /\ console = <<>>
    /\ dpc = "idle"
    /\ data = <<>>
    /\ results = <<>>
    /\ detailsResult = NoResult
    /\ ReceiptsAtRest
    /\ ExportAtRest
    /\ ViewAtRest
    /\ CallsAtRest
    /\ FontAtRest
    /\ SessionAtRest

NextExport ==
    \/ \E fn \in {"handleDownloadReport", "handleDownloadInvoices"} : HandleDownload(fn)
    \/ FetchPdfsRejected
    \/ \E k \in 1..Len(pdfs), result \in AllTripResults : TripResolved(k, result)
    \/ FetchPdfsReturned
    \/ \E ok \in BOOLEAN, coverLen \in 1..2 : LoadSettled(ok, coverLen)

SpecExport == InitExport /\ [][NextExport]_vars

\* ------------------------------------------------------------- dates
\* The date strings of the rides studied: one in ISO format, one that only
\* new Date() understands, one that nothing understands, and the empty string.
IsoDate == "2025-11-16T22:33:00.000Z"
NativeDate == "Dec 1, 2025 09:05:00 UTC"
BadDate == "yesterday evening"
DateStrings == {IsoDate, NativeDate, BadDate, EmptyString}

NullDate == [isNull |-> TRUE, iso |-> "", formatted |-> ""]
Date(iso, formatted) == [isNull |-> FALSE, iso |-> iso, formatted |-> formatted]

\* isValid(parseISO(dateStr))
ParsesAsISO(dateStr) == dateStr = IsoDate
\* isValid(new Date(dateStr))
ParsesNatively(dateStr) == dateStr \in {IsoDate, NativeDate}
\* the instant a parsable string denotes: what toISOString() and
\* format(date, "MMM d, yyyy HH:mm") print for it (time zone UTC)
InstantOf(dateStr) ==
    IF dateStr = IsoDate THEN Date("2025-11-16T22:33:00.000Z", "Nov 16, 2025 22:33")
    ELSE Date("2025-12-01T09:05:00.000Z", "Dec 1, 2025 09:05")

safeParseDate(dateStr) ==
    IF ~Truthy(dateStr) THEN NullDate
    ELSE IF ParsesAsISO(dateStr) THEN InstantOf(dateStr)
    ELSE IF ParsesNatively(dateStr) THEN InstantOf(dateStr)
    ELSE NullDate

\* safeFormatDate(dateStr, formatStr, fallback?) with formatStr "MMM d, yyyy HH:mm"
safeFormatDate(dateStr, fallback) ==
    LET date == safeParseDate(dateStr)
    IN  IF ~date.isNull THEN date.formatted
        ELSE IF Truthy(fallback) THEN fallback
        ELSE IF Truthy(dateStr) THEN dateStr
        ELSE "N/A"

\* ------------------------------------------------------------ renderers
RupeeSign == "<U+20B9>"
EuroSign == "<U+20AC>"
PoundSign == "<U+00A3>"
DollarSign == "$"
Quote == "\""
Comma == ","
Newline == "\n"
Space == " "

\* characters outside the codes 32-126 and 160-383
Unprintable == {Newline, RupeeSign, EuroSign}

RECURSIVE TrimStart(_)
TrimStart(text) ==
    IF text # <<>> /\ Head(text) \in {Space, Newline} THEN TrimStart(Tail(text)) ELSE text
RECURSIVE TrimEnd(_)
TrimEnd(text) ==
    IF text # <<>> /\ text[Len(text)] \in {Space, Newline}
    THEN TrimEnd(SubSeq(text, 1, Len(text) - 1)) ELSE text

sanitizeText(text) == TrimEnd(TrimStart(SelectSeq(text, LAMBDA c : c \notin Unprintable)))

\* text || alternative
OrElse(text, alternative) == IF text = <<>> THEN alternative ELSE text

getCurrencySymbol(currency) ==
    IF currency = "INR" THEN RupeeSign
    ELSE IF currency = "USD" THEN DollarSign
    ELSE IF currency = "EUR" THEN EuroSign
    ELSE IF currency = "GBP" THEN PoundSign
    ELSE currency \o " "

formatCurrency(amount, currency) == <<getCurrencySymbol(currency)>> \o ToFixed(amount)

\* generateSummaryPdf, lines 144-166: the body rows of the table
tableData(s) ==
    [k \in 1..Len(s.rides) |->
        LET ride == s.rides[k]
        IN  << Digits(k),
               <<safeFormatDate(ride.startTime, UNDEFINED)>>,
               <<safeFormatDate(ride.endTime, "N/A")>>,
               sanitizeText(OrElse(ride.driverName, <<"N/A">>)),
               sanitizeText(OrElse(ride.vehicleType, <<"N/A">>)),
               sanitizeText(OrElse(ride.startLocation, <<"N/A">>)),
               sanitizeText(OrElse(ride.endLocation, <<"N/A">>)),
               formatCurrency(ride.totalAmount, ride.currency) >>]
    \o << << <<>>, <<>>, <<>>, <<>>, <<>>, <<>>, <<"Grand Total:">>,
             formatCurrency(s.totalAmount, s.currency) >> >>

\* text.replace(/"/g, '""')
RECURSIVE DoubleQuotes(_)
DoubleQuotes(text) ==
    IF text = <<>> THEN <<>>
    ELSE (IF Head(text) = Quote THEN <<Quote, Quote>> ELSE <<Head(text)>>)
         \o DoubleQuotes(Tail(text))

\* faulty variant of CsvQuoted: the quotes inside the text are left alone
CsvQuoted_Bare(text) == <<Quote>> \o text \o <<Quote>>

\* `"${(text || "").replace(/"/g, '""')}"`
CsvQuoted(text) == <<Quote>> \o DoubleQuotes(text) \o <<Quote>>

CsvHeaders ==
    << <<"Ride ID">>, <<"Pickup">>, <<"Dropoff">>, <<"Driver">>, <<"Vehicle Type">>,
       <<"Status">>, <<"Pickup Address">>, <<"Destination Address">>, <<"Amount">>,
       <<"Currency">> >>

\* one row of generateCsv
CsvRow(ride) ==
    LET startDate == safeParseDate(ride.startTime)
        endDate   == safeParseDate(ride.endTime)
    IN  << <<ToString(ride.rideId)>>,
           IF ~startDate.isNull THEN <<startDate.iso>> ELSE <<>>,
           IF ~endDate.isNull THEN <<endDate.iso>> ELSE <<>>,
           CsvQuoted(ride.driverName),
           CsvQuoted(ride.vehicleType),
           CsvQuoted(<<ride.status>>),
           CsvQuoted(ride.startLocation),
           CsvQuoted(ride.endLocation),
           ToFixed(ride.totalAmount),
           <<ride.currency>> >>

\* faulty variant of CsvTotalRow: the total is the amount of the first ride
CsvTotalRow_FirstAmount(s) ==
    << <<>>, <<>>, <<>>, <<>>, <<>>, <<>>, <<>>, <<"Total:">>,
       ToFixed(s.rides[1].totalAmount), <<s.currency>> >>

CsvTotalRow(s) ==
    << <<>>, <<>>, <<>>, <<>>, <<>>, <<>>, <<>>, <<"Total:">>,
       ToFixed(s.totalAmount), <<s.currency>> >>

generateCsv(s) ==
    LET rows == [k \in 1..Len(s.rides) |-> CsvRow(s.rides[k])] \o <<CsvTotalRow(s)>>
    IN  Join(<<Join(CsvHeaders, Comma)>> \o [k \in 1..Len(rows) |-> Join(rows[k], Comma)],
             Newline)

\* the text file handed to downloadBlob
TextArtifact(filename, content) == [filename |-> filename, content |-> content]

\* ------------------------------ the dashboard's table: selection and exports
\* The rides a fetch may have put in the table.  Variant 4 carries the NaN
\* amount that the transformation of a fare such as ",5" produces.
Variants == 1..4
TableRide(k, v) ==
    [rideId        |-> k,
     isAutoRide    |-> FALSE,
     startTime     |-> CASE v = 1 -> IsoDate [] v = 2 -> BadDate
                         [] v = 3 -> NativeDate [] OTHER -> IsoDate,
     endTime       |-> CASE v = 1 -> IsoDate [] v = 2 -> EmptyString
                         [] v = 3 -> BadDate [] OTHER -> IsoDate,
     driverName    |-> CASE v = 1 -> <<"Raj">>
                         [] v = 2 -> <<"Ann", Space, Quote, "Al", Quote, Comma, "Lee">>
                         [] v = 3 -> <<>> [] OTHER -> <<"Li", Newline, "Wu">>,
     vehicleType   |-> IF v = 3 THEN <<>> ELSE <<"Uber", Space, "Go">>,
     startLocation |-> <<"1", Space, "Main", Comma, Space, "Pune">>,
     endLocation   |-> IF v = 2 THEN <<Quote>> ELSE <<"Airport">>,
     totalAmount   |-> CASE v = 1 -> Num(84, <<3, 8>>) [] v = 2 -> Num(120, <<>>)
                         [] v = 3 -> Num(12, <<5>>) [] OTHER -> NaN,
     currency      |-> IF v = 3 THEN "EUR" ELSE "INR",
     status        |-> IF v = 3 THEN "CANCELED" ELSE "COMPLETED"]
TableRideLists ==
    { [k \in 1..MaxTableRides |-> TableRide(k, vs[k])] : vs \in [1..MaxTableRides -> Variants] }

\* onRowSelectionChange={setRowSelection}: a click on the checkbox of a row shown
ToggleRow(id) ==
    /\ epc = "idle"
    /\ id \in Range(RideIds(filteredRides))
    /\ rowSelection' = IF id \in rowSelection THEN rowSelection \ {id}
                       ELSE rowSelection \cup {id}
    /\ UNCHANGED <<auth, dateFrom, rides, isLoadingRides, hasSearched, fetchProgress, pc,
                   runVars, envVars, handlerVars, viewVars, callVars, fontVars, sessionVars, receiptVars,
                   exportVars>>

\* setStatusFilter("COMPLETED") / setStatusFilter("all")
SetStatusFilter(f) ==
    /\ epc = "idle"
    /\ statusFilter' = f
    /\ UNCHANGED <<dashVars, runVars, envVars, handlerVars, pdfSummary, callVars, fontVars, sessionVars,
                   receiptVars, exportVars>>

\* the object both handlers build from summary before they render it
SummaryCopy(s) ==
    [selectedCount |-> s.selectedCount,
     totalAmount   |-> s.totalAmount,
     currency      |-> s.currency,
     rides         |-> [k \in 1..Len(s.rides) |->
                          [rideId        |-> s.rides[k].rideId,
                           startTime     |-> s.rides[k].startTime,
                           endTime       |-> s.rides[k].endTime,
                           startLocation |-> s.rides[k].startLocation,
                           endLocation   |-> s.rides[k].endLocation,
                           totalAmount   |-> s.rides[k].totalAmount,
                           currency      |-> s.rides[k].currency,
                           driverName    |-> s.rides[k].driverName,
                           vehicleType   |-> s.rides[k].vehicleType,
                           status        |-> s.rides[k].status,
                           invoiceUrl    |-> ""]]]

\* handleDownloadCsv
HandleDownloadCsv ==
    /\ epc = "idle"
    /\ exportFn' = "handleDownloadCsv"
    /\ epc' = "returned"
    /\ downloads' = IF summary.selectedCount = 0 THEN downloads
                    ELSE Append(downloads,
                                TextArtifact("uber_expenses.csv",
                                             generateCsv(SummaryCopy(summary))))
    /\ UNCHANGED <<dashVars, runVars, envVars, handlerVars, viewVars, callVars, fontVars, sessionVars,
                   receiptVars, isDownloading, validPdfs>>

\* handleDownloadSummaryPdf, up to the await of generateSummaryPdf
HandleDownloadSummaryPdf ==
    /\ epc = "idle"
    /\ exportFn' = "handleDownloadSummaryPdf"
    /\ IF summary.selectedCount = 0
       THEN /\ epc' = "returned"
            /\ UNCHANGED pdfSummary
       ELSE /\ epc' = "await_summary"
            /\ pdfSummary' = SummaryCopy(summary)
    /\ UNCHANGED <<dashVars, runVars, envVars, handlerVars, statusFilter, callVars, fontVars, sessionVars,
                   receiptVars, isDownloading, validPdfs, downloads>>

\* generateSummaryPdf settles: the file is downloaded, or the font could not
\* be loaded and the handler's promise rejects
SummaryPdfSettled(ok, coverLen) ==
    /\ epc = "await_summary"
    /\ epc' = "returned"
    /\ downloads' = IF ~ok THEN downloads
                    ELSE Append(downloads,
                                Artifact("uber_summary.pdf", generateSummaryPdf(coverLen, <<>>),
                                         tableData(pdfSummary)))
    /\ UNCHANGED <<dashVars, runVars, envVars, handlerVars, viewVars, callVars, fontVars, sessionVars,
                   receiptVars, exportFn, isDownloading, validPdfs>>

InitSelection ==
    /\ auth = ValidAuth
    /\ dateFrom = TRUE
    /\ rides \in TableRideLists
    /\ isLoadingRides = FALSE
    /\ hasSearched = TRUE
    /\ rowSelection = {}
    /\ fetchProgress = <<>>
    /\ pc = "returned"
    /\ allActivities = <<>>
    /\ pageToken = UNDEFINED
    /\ pageCount = 0
    /\ tripUUIDs = <<>>
    /\ i = 0
    /\ batch = <<>>
    /\ enrichedRides = <<>>
    /\ cursor = TopId
    /\ pageRequests = <<>>
    /\ pageResponses = <<>>
    /\ detailCalls = <<>>
    /\ detailReturns = <<>>
    /\ inFlight = 0
    /\ console = <<>>
    /\ dpc = "idle"
    /\ data = <<>>
    /\ results = <<>>
    /\ detailsResult = NoResult
    /\ ReceiptsAtRest
    /\ ExportAtRest
    /\ ViewAtRest
    /\ CallsAtRest
    /\ FontAtRest
    /\ SessionAtRest

NextSelection ==
    \/ \E id \in 1..MaxTableRides : ToggleRow(id)
    \/ \E f \in {"all", "COMPLETED"} : SetStatusFilter(f)
    \/ HandleDownloadCsv
    \/ HandleDownloadSummaryPdf
    \/ \E ok \in BOOLEAN, coverLen \in 1..2 : SummaryPdfSettled(ok, coverLen)

SpecSelection == InitSelection /\ [][NextSelection]_vars

\* ------------------------------------- the pure functions, one application
\* all texts of at most n pieces over an alphabet
Texts(alphabet, n) == UNION {[1..k -> alphabet] : k \in 0..n}

\* the text fields generateCsv may be handed
CsvAlphabet == {Quote, Comma, Newline, Space, "a"}
CsvFields == Texts(CsvAlphabet, MaxTextLen)

\* ---- the amount and the currency of a fare (trip.fare, lines 1600-1610) or
\* ---- of a description (activity.description, lines 1425-1437): same code
CurrencySymbols == {RupeeSign, DollarSign, EuroSign, PoundSign}

\* [\d,]
IsAmountChar(c) == IsDigit(c) \/ c = Comma

\* the length of the run of digits and commas that starts at position k
RECURSIVE AmountRun(_, _)
AmountRun(text, k) ==
    IF k > Len(text) \/ ~IsAmountChar(text[k]) THEN 0 ELSE 1 + AmountRun(text, k + 1)

\* the length of the run of digits that starts at position k
RECURSIVE DigitRun(_, _)
DigitRun(text, k) ==
    IF k > Len(text) \/ ~IsDigit(text[k]) THEN 0 ELSE 1 + DigitRun(text, k + 1)

NoMatch == [matched |-> FALSE, group |-> <<>>]

\* text.match(/[₹$€£]?([\d,]+\.?\d*)/): the leftmost match starts at the first
\* digit or comma of the text, or at a currency symbol right before it; its
\* group is that run of digits and commas, a decimal point if one follows,
\* and the digits after it
fareMatch(text) ==
    IF \A k \in 1..Len(text) : ~IsAmountChar(text[k]) THEN NoMatch
    ELSE LET g == CHOOSE k \in 1..Len(text) :
                      IsAmountChar(text[k]) /\ \A j \in 1..(k - 1) : ~IsAmountChar(text[j])
             run == AmountRun(text, g)
             dot == IF g + run <= Len(text) /\ text[g + run] = "." THEN 1 ELSE 0
             decimals == IF dot = 1 THEN DigitRun(text, g + run + 1) ELSE 0
         IN  [matched |-> TRUE, group |-> SubSeq(text, g, g + run + dot + decimals - 1)]

\* text.replace(",", ""): a string pattern replaces its first occurrence only
ReplaceComma(text) ==
    IF \A k \in 1..Len(text) : text[k] # Comma THEN text
    ELSE LET first == CHOOSE k \in 1..Len(text) :
                          text[k] = Comma /\ \A j \in 1..(k - 1) : text[j] # Comma
         IN  SubSeq(text, 1, first - 1) \o SubSeq(text, first + 1, Len(text))

\* Number.parseFloat on a text of digits, commas and decimal points: the
\* longest prefix that is a decimal literal, NaN if there is none
ParseFloat(text) ==
    LET whole == DigitRun(text, 1)
        dot == whole + 1 <= Len(text) /\ text[whole + 1] = "."
        decimals == IF dot THEN DigitRun(text, whole + 2) ELSE 0
    IN  IF whole + decimals = 0 THEN NaN
        ELSE Num(DigitsValue(0, SubSeq(text, 1, whole)),
                 StripZeros([k \in 1..decimals |-> DigitValue(text[whole + 1 + k])]))

\* text.includes(symbol)
Includes(text, symbol) == \E k \in 1..Len(text) : text[k] = symbol

\* faulty variant of DetectCurrency: the symbol in front of the amount decides
DetectCurrency_AtMatch(text) ==
    LET at == IF \E k \in 1..Len(text) : IsAmountChar(text[k])
              THEN (CHOOSE k \in 1..Len(text) :
                        IsAmountChar(text[k]) /\ \A j \in 1..(k - 1) : ~IsAmountChar(text[j])) - 1
              ELSE 0
        symbol == IF at >= 1 THEN text[at] ELSE ""
    IN  IF symbol = RupeeSign THEN "INR"
        ELSE IF symbol = EuroSign THEN "EUR"
        ELSE IF symbol = PoundSign THEN "GBP"
        ELSE "USD"

\* let currency = "USD"; if (includes("₹")) ... else if (includes("€")) ... else if (includes("£")) ...
DetectCurrency(text) ==
    IF Includes(text, RupeeSign) THEN "INR"
    ELSE IF Includes(text, EuroSign) THEN "EUR"
    ELSE IF Includes(text, PoundSign) THEN "GBP"
    ELSE "USD"

\* totalAmount and currency of the ride the transformation builds
ParseFare(text) ==
    LET m == fareMatch(text)
    IN  [totalAmount |-> IF m.matched THEN ParseFloat(ReplaceComma(m.group)) ELSE Zero,
         currency    |-> DetectCurrency(text)]

\* the fares studied: every string of at most MaxFareLen characters over the
\* alphabet, and some fares of the usual forms
FareAlphabet == {RupeeSign, EuroSign, PoundSign, "1", "5", "0", Comma, ".", "x"}
SampleFares ==
    { <<RupeeSign, "8", "4", ".", "3", "8">>,
      <<DollarSign, "1", "2", ".", "5", "0">>,
      <<RupeeSign, "1", ",", "2", "3", "4", ".", "5", "0">>,
      <<"1", ",", "2", "3", "4", ",", "5", "6", "7", ".", "5", "0">>,
      <<"x", "x", Comma, Space, EuroSign, "5", ".", "0", "0">> }
Fares == Texts(FareAlphabet, MaxFareLen) \cup SampleFares

\* ---- handleSaveAmount(rideId, currentAmount) of the table (part_001)
\* what is typed into the number input, and the amounts a ride may show
SaveInputs == Texts({"0", "5", "."}, MaxTextLen)
CurrentAmounts == {Num(5, <<>>), Num(84, <<3, 8>>)}
NotSaved == [saved |-> FALSE]
Saved(newAmount) == [saved |-> TRUE, newAmount |-> newAmount]

\* the amount handed to onAmountChange, if any
handleSaveAmount(input, currentAmount) ==
    LET newAmount == ParseFloat(input)
    IN  IF ~newAmount.nan /\ Positive(newAmount) /\ newAmount # currentAmount
        THEN Saved(newAmount)
        ELSE NotSaved

\* ---- vehicle classification: from the receipt's label (getVehicleInfo) and
\* ---- from the activity's image URL (fetchActivities)
\* String.prototype.toLowerCase, on the letters that occur
LowerChar(c) ==
    CASE c = "A" -> "a" [] c = "B" -> "b" [] c = "G" -> "g" [] c = "L" -> "l"
      [] c = "M" -> "m" [] c = "T" -> "t" [] c = "U" -> "u" [] c = "X" -> "x"
      [] OTHER -> c
toLowerCase(text) == [k \in 1..Len(text) |-> LowerChar(text[k])]

\* text.includes(word) for a word of several characters
IncludesWord(text, word) ==
    \E k \in 1..(Len(text) - Len(word) + 1) : SubSeq(text, k, k + Len(word) - 1) = word

\* faulty variant of getVehicleInfo: the label is compared as it is spelled
getVehicleInfo_CaseSensitive(vehicleType) ==
    LET isBike == IncludesWord(vehicleType, <<"m", "o", "t", "o">>)
                  \/ IncludesWord(vehicleType, <<"b", "i", "k", "e">>)
        isAuto == IncludesWord(vehicleType, <<"a", "u", "t", "o">>)
                  \/ IncludesWord(vehicleType, <<"t", "u", "k">>)
    IN  [type   |-> IF vehicleType = <<>> THEN <<"C", "a", "r">> ELSE vehicleType,
         isAuto |-> isAuto \/ isBike,
         isBike |-> isBike]

getVehicleInfo(vehicleType) ==
    LET lower == toLowerCase(vehicleType)
        isBike == IncludesWord(lower, <<"m", "o", "t", "o">>)
                  \/ IncludesWord(lower, <<"b", "i", "k", "e">>)
        isAuto == IncludesWord(lower, <<"a", "u", "t", "o">>)
                  \/ IncludesWord(lower, <<"t", "u", "k">>)
    IN  [type   |-> IF vehicleType = <<>> THEN <<"C", "a", "r">> ELSE vehicleType,
         isAuto |-> isAuto \/ isBike,
         isBike |-> isBike]

\* isAutoRide of the activity transformation, from activity.imageURL.light
isAutoRide(imageURL) ==
    \/ IncludesWord(imageURL, <<"T", "u", "k", "T", "u", "k">>)
    \/ IncludesWord(imageURL, <<"A", "u", "t", "o">>)
    \/ IncludesWord(imageURL, <<"M", "o", "t", "o">>)

\* the labels and URLs studied: every string of at most MaxLabelLen characters
\* over the alphabet, and some of the usual names
LabelAlphabet == {"a", "A", "u", "t", "o", "k"}
SampleLabels ==
    { <<"M", "o", "t", "o">>, <<"m", "o", "t", "o">>, <<"b", "i", "k", "e">>,
      <<"B", "i", "k", "e">>, <<"T", "u", "k", "T", "u", "k">>,
      <<"t", "u", "k", "t", "u", "k">>, <<"U", "b", "e", "r", "G", "o">>,
      <<"U", "b", "e", "r", "X", "L">>,
      <<"U", "b", "e", "r", "A", "u", "t", "o">> }
Labels == Texts(LabelAlphabet, MaxLabelLen) \cup SampleLabels

\* the arguments studied, by function
ArgsOf(fn) ==
    CASE fn = "CsvQuoted" -> CsvFields
      [] fn = "ParseFare" -> Fares
      [] fn = "handleSaveAmount" -> [input : SaveInputs, currentAmount : CurrentAmounts]
      [] fn = "getVehicleInfo" -> Labels
      [] fn = "isAutoRide" -> Labels

Functions == {"CsvQuoted", "ParseFare", "handleSaveAmount", "getVehicleInfo", "isAutoRide"}

\* the function under study returns
Return(value) ==
    /\ ~callRet.returned
    /\ callRet' = Returned(value)
    /\ UNCHANGED <<dashVars, runVars, envVars, handlerVars, viewVars, callFn, callArg, fontVars, sessionVars,
                   receiptVars, exportVars>>

\* generateCsv quotes one text field
CsvQuotedApplied ==
    /\ callFn = "CsvQuoted"
    /\ Return(CsvQuoted(callArg))

InitFunctions ==
    /\ auth = NullAuth
    /\ dateFrom = TRUE
    /\ FetchAtRest
    /\ ReceiptsAtRest
    /\ ExportAtRest
    /\ ViewAtRest
    /\ callFn \in Functions
    /\ callArg \in ArgsOf(callFn)
    /\ callRet = NotReturned
    /\ FontAtRest
    /\ SessionAtRest

\* a fare or description is transformed
ParseFareApplied ==
    /\ callFn = "ParseFare"
    /\ Return(ParseFare(callArg))

\* the edited amount of a row is confirmed
HandleSaveAmountApplied ==
    /\ callFn = "handleSaveAmount"
    /\ Return(handleSaveAmount(callArg.input, callArg.currentAmount))

\* a receipt's vehicle label is classified
GetVehicleInfoApplied ==
    /\ callFn = "getVehicleInfo"
    /\ Return(getVehicleInfo(callArg))

\* an activity's image URL is classified
IsAutoRideApplied ==
    /\ callFn = "isAutoRide"
    /\ Return(isAutoRide(callArg))

NextFunctions ==
    \/ CsvQuotedApplied
    \/ ParseFareApplied
    \/ HandleSaveAmountApplied
    \/ GetVehicleInfoApplied
    \/ IsAutoRideApplied

SpecFunctions == InitFunctions /\ [][NextFunctions]_vars

\* --------------------------------- loadGoogleSansFont, called by each render
FontBytes == "GoogleSansFlex.ttf"

\* a call of loadGoogleSansFont: where it stands and what it returned
FontCall(at, bytes) == [at |-> at, bytes |-> bytes]

\* if (cachedFontBytes)
CacheHit(cached) == cached # "null"

\* generateSummaryPdf calls loadGoogleSansFont: the cached font is returned,
\* or the font file is requested and the call waits for the response
LoadFontCalled ==
    /\ Len(renders) < MaxRenders
    /\ IF CacheHit(cachedFontBytes)
       THEN /\ renders' = Append(renders, FontCall("returned", cachedFontBytes))
            /\ UNCHANGED fontFetches
       ELSE /\ renders' = Append(renders, FontCall("await_fetch", "null"))
            /\ fontFetches' = Append(fontFetches, Len(renders) + 1)
    /\ UNCHANGED <<sessionVars, dashVars, runVars, envVars, handlerVars, receiptVars, exportVars, viewVars,
                   callVars, cachedFontBytes>>

\* the response arrives: if (!response.ok) throw, else the body is awaited
FontResponded(r, ok) ==
    /\ r \in 1..Len(renders)
    /\ renders[r].at = "await_fetch"
    /\ renders' = [renders EXCEPT ![r].at = IF ok THEN "await_body" ELSE "threw"]
    /\ UNCHANGED <<sessionVars, dashVars, runVars, envVars, handlerVars, receiptVars, exportVars, viewVars,
                   callVars, cachedFontBytes, fontFetches>>

\* cachedFontBytes = await response.arrayBuffer(); return cachedFontBytes
\* (or the body cannot be read and the await throws)
FontBodyRead(r, ok) ==
    /\ r \in 1..Len(renders)
    /\ renders[r].at = "await_body"
    /\ IF ok
       THEN /\ cachedFontBytes' = FontBytes
            /\ renders' = [renders EXCEPT ![r] = FontCall("returned", FontBytes)]
       ELSE /\ renders' = [renders EXCEPT ![r].at = "threw"]
            /\ UNCHANGED cachedFontBytes
    /\ UNCHANGED <<sessionVars, dashVars, runVars, envVars, handlerVars, receiptVars, exportVars, viewVars,
                   callVars, fontFetches>>

InitFont ==
    /\ auth = NullAuth
    /\ dateFrom = TRUE
    /\ FetchAtRest
    /\ ReceiptsAtRest
    /\ ExportAtRest
    /\ ViewAtRest
    /\ CallsAtRest
    /\ FontAtRest
    /\ SessionAtRest

NextFont ==
    \/ LoadFontCalled
    \/ \E r \in 1..MaxRenders, ok \in BOOLEAN : FontResponded(r, ok)
    \/ \E r \in 1..MaxRenders, ok \in BOOLEAN : FontBodyRead(r, ok)

SpecFont == InitFont /\ [][NextFont]_vars

\* ------------------------------------------------ the session of the dashboard
\* The page over its life: the mount effect, the AuthSetupModal, logout, and
\* the calls of handleFetchRides, each one a run with its own locals.
MaxFetchRuns == 2    \* calls of handleFetchRides in the life of the page (SpecSession)
MaxRunPages == 2     \* pages the provider serves to one of these calls

\* cookie.trim() of what the cookie field of the modal holds
CookieFields == {EmptyString, "sid=2"}

\* handleSubmit: const auth = { cookie: cookie.trim(), csrfToken: "x" }
Credentials(cookie) == [isNull |-> FALSE, cookie |-> cookie, csrfToken |-> "x"]

\* JSON.stringify(auth): the text kept under the key
Stringify(a) == <<"{", "cookie", a.cookie, "csrfToken", a.csrfToken, "}">>

\* an item that is not JSON
Corrupt == <<"{", "cookie">>

\* JSON.parse(storedAuth) does not throw
IsJson(item) == Len(item) = 6 /\ item[1] = "{" /\ item[6] = "}"

\* JSON.parse(storedAuth) as UberAuthCredentials
Parse(item) == [isNull |-> FALSE, cookie |-> item[3], csrfToken |-> item[5]]

\* what the storage may hold when the page loads: nothing, what handleSubmit
\* stored on an earlier visit, or something else
StoredItems == {NoItem, Stringify(Credentials("sid=1")), Corrupt}

\* the HTTP status of the provider's answer to the currentUser query
Answers == {"200", "404"}

\* response.data.currentUser of the account the cookie belongs to
UserOf(cookie) == [isNull |-> FALSE, firstName |-> cookie]

\* uberGraphQL: if (!response.ok) throw new Error(`Uber API error: ${response.status} ...`)
ErrorMessage(answer) ==
    IF answer = "404" THEN "Uber API error: 404 Not Found"
    ELSE "Uber API error: 500 Internal Server Error"

\* fetchCurrentUser handler: try { return { user } } catch { return { user: null, error } }
CurrentUserResult(a, answer) ==
    IF answer = "200"
    THEN [user |-> UserOf(a.cookie), error |-> UNDEFINED]
    ELSE [user |-> NullUser, error |-> ErrorMessage(answer)]

\* result.status === 404: a property the result does not have reads undefined
StatusIs(result, status) ==
    "status" \in DOMAIN result /\ result.status = status

\* what the session of the page leaves alone
offSession == <<runVars, envVars, handlerVars, receiptVars, exportVars, viewVars, callVars, fontVars>>

\* localStorage.removeItem("uber_auth")
RemoveItem == localStorage' = NoItem

\* The mount effect up to its lookup (lines 728-735, 747-749).
Mounted ==
    /\ mount.at = "unmounted"
    /\ IF localStorage # NoItem
       THEN IF IsJson(localStorage)
            THEN /\ auth' = Parse(localStorage)
                 /\ mount' = Mount("await_user", "none", Parse(localStorage))
                 /\ UNCHANGED localStorage
            ELSE /\ RemoveItem
                 /\ mount' = Mount("done", "none", NullAuth)
                 /\ UNCHANGED auth
       ELSE /\ mount' = Mount("done", "none", NullAuth)
            /\ UNCHANGED <<auth, localStorage>>
    /\ UNCHANGED <<dateFrom, rides, isLoadingRides, hasSearched, rowSelection, fetchProgress,
                   user, modal, fetchRuns, offSession>>

\* The lookup of the mount effect returns (lines 736-746).  A call rejected by
\* the inputValidator leaves the promise rejected: the .then never runs.
StartupLookupReturned(answer) ==
    /\ mount.at = "await_user"
    /\ mount' = Mount("done", answer, mount.auth)
    /\ LET result == CurrentUserResult(mount.auth, answer)
       IN  IF AuthRejected(mount.auth)
           THEN UNCHANGED <<auth, user, localStorage>>
           ELSE IF ~result.user.isNull
           THEN /\ user' = result.user
                /\ UNCHANGED <<auth, localStorage>>
           ELSE IF StatusIs(result, "404")
           THEN /\ RemoveItem
                /\ auth' = NullAuth
                /\ user' = NullUser
           ELSE UNCHANGED <<auth, user, localStorage>>
    /\ UNCHANGED <<dateFrom, rides, isLoadingRides, hasSearched, rowSelection, fetchProgress,
                   modal, fetchRuns, offSession>>

\* handleAuthSuccess (lines 771-781)
handleAuthSuccess(newAuth, newUser) ==
    /\ auth' = newAuth
    /\ user' = newUser
    /\ rides' = <<>>
    /\ rowSelection' = {}
    /\ hasSearched' = FALSE

\* handleSubmit of the modal from the click to its await (part_002 lines 300-315)
HandleSubmit(cookie) ==
    /\ modal.at = "idle"
    /\ ~modal.isLoading
    /\ modal' = IF ~Truthy(cookie)
                THEN Modal("idle", FALSE, "Cookie is required", NullAuth)
                ELSE Modal("await_user", TRUE, NULL, Credentials(cookie))
    /\ UNCHANGED <<dashVars, localStorage, user, mount, fetchRuns, offSession>>

\* result.error || "Failed to authenticate. Please check your credentials."
SubmitError(result) ==
    IF Truthy(result.error) THEN result.error ELSE "Failed to authenticate"

\* The lookup of handleSubmit returns (part_002 lines 316-336).
SubmitLookupReturned(answer) ==
    /\ modal.at = "await_user"
    /\ LET result == CurrentUserResult(modal.auth, answer)
       IN  IF Truthy(result.error) \/ result.user.isNull
           THEN /\ modal' = Modal("idle", FALSE, SubmitError(result), NullAuth)
                /\ UNCHANGED <<auth, user, rides, rowSelection, hasSearched, localStorage>>
           ELSE /\ localStorage' = Stringify(modal.auth)
                /\ handleAuthSuccess(modal.auth, result.user)
                /\ modal' = Modal("idle", FALSE, NULL, NullAuth)
    /\ UNCHANGED <<dateFrom, isLoadingRides, fetchProgress, mount, fetchRuns, offSession>>

\* The lookup of handleSubmit is rejected (the server is unreachable): catch, finally.
SubmitLookupThrew ==
    /\ modal.at = "await_user"
    /\ modal' = Modal("idle", FALSE, "Authentication failed", NullAuth)
    /\ UNCHANGED <<dashVars, localStorage, user, mount, fetchRuns, offSession>>

\* handleLogout (lines 783-790); the menu item shows when isAuthenticated && user
HandleLogout ==
    /\ ~auth.isNull
    /\ ~user.isNull
    /\ RemoveItem
    /\ auth' = NullAuth
    /\ user' = NullUser
    /\ rides' = <<>>
    /\ rowSelection' = {}
    /\ hasSearched' = FALSE
    /\ UNCHANGED <<dateFrom, isLoadingRides, fetchProgress, mount, modal, fetchRuns, offSession>>

\* onDateRangeChange={setDateRange}; the picker shows with the fetch card
SetDateRange(from) ==
    /\ ~auth.isNull
    /\ dateFrom' = from
    /\ UNCHANGED <<auth, rides, isLoadingRides, hasSearched, rowSelection, fetchProgress,
                   sessionVars, offSession>>

\* a click on a row of the table, which shows when hasSearched && filteredRides.length > 0
TableRowToggled(id) ==
    /\ hasSearched
    /\ ToggleRow(id)

\* one call of handleFetchRides: where it stands, the auth it closed over, its locals
FetchRun(at, a, all, token, count, ids, index, enriched) ==
    [at |-> at, auth |-> a, allActivities |-> all, pageToken |-> token, pageCount |-> count,
     tripUUIDs |-> ids, i |-> index, enrichedRides |-> enriched]

\* a call that has returned: its locals are gone
Ended(run) == FetchRun("returned", run.auth, <<>>, UNDEFINED, 0, <<>>, 0, <<>>)

\* the calls of handleFetchRides that have not returned
RunsInProgress == {r \in 1..Len(fetchRuns) : fetchRuns[r].at # "returned"}

\* faulty variant of FetchEnabled: the button is disabled only without a start date
FetchEnabled_WhileLoading(loading, from) == from

\* the Fetch button: disabled={isLoadingRides || !dateRange.from}
FetchEnabled(loading, from) == ~(loading \/ ~from)

\* A click on the Fetch button, which shows when auth is set: handleFetchRides
\* up to its first await (lines 793-828).
FetchClicked ==
    /\ ~auth.isNull
    /\ FetchEnabled(isLoadingRides, dateFrom)
    /\ Len(fetchRuns) < MaxFetchRuns
    /\ IF auth.isNull \/ ~dateFrom
       THEN UNCHANGED <<dashVars, fetchRuns>>
       ELSE /\ isLoadingRides' = TRUE
            /\ rowSelection' = {}
            /\ hasSearched' = TRUE
            /\ fetchProgress' = <<"Fetching activities", 1, 0>>
            /\ fetchRuns' = Append(fetchRuns,
                                   FetchRun("await_page", auth, <<>>, UNDEFINED, 1, <<>>, 0, <<>>))
            /\ UNCHANGED <<auth, dateFrom, rides>>
    /\ UNCHANGED <<localStorage, user, mount, modal, offSession>>

\* what the provider may answer to the page request of a run: a failure, or a
\* page of no ride or of the next ride, with a token only while it has pages left
RunPageResults(run) ==
    {PageFailed} \cup
    { PageOk(PageActivities(TopId - Len(run.allActivities), n), tok) :
        n \in {0, 1},
        tok \in {NULL} \cup (IF run.pageCount < MaxRunPages THEN {"tokA"} ELSE {}) }

\* The first batch of a run is issued, or the run ends without rides (lines 845-888).
RunAfterPager(r, run, all) ==
    IF Len(all) > 0
    THEN /\ fetchRuns' = [fetchRuns EXCEPT ![r] =
                FetchRun("await_details", run.auth, all, run.pageToken, run.pageCount,
                         RideIds(all), 0, <<>>)]
         /\ fetchProgress' = <<"Fetching trip details", Min(batchSize, Len(all)), Len(all)>>
         /\ UNCHANGED <<rides, isLoadingRides>>
    ELSE /\ rides' = <<>>
         /\ fetchProgress' = <<>>
         /\ isLoadingRides' = FALSE
         /\ fetchRuns' = [fetchRuns EXCEPT ![r] = Ended(run)]

\* The await of fetchActivities of run r resumes with `result` (lines 830-843).
RunPageReturned(r, result) ==
    /\ r \in 1..Len(fetchRuns)
    /\ fetchRuns[r].at = "await_page"
    /\ result \in RunPageResults(fetchRuns[r])
    /\ LET run == fetchRuns[r]
           all == IF Truthy(result.error) THEN run.allActivities
                  ELSE PushAll(run.allActivities, result.activities)
       IN  IF Truthy(result.error) \/ NoMorePages(result)
           THEN RunAfterPager(r, run, all)
           ELSE /\ fetchRuns' = [fetchRuns EXCEPT ![r] =
                       FetchRun("await_page", run.auth, all, result.nextPageToken,
                                run.pageCount + 1, <<>>, 0, <<>>)]
                /\ fetchProgress' = <<"Fetching activities", run.pageCount + 1, Len(all)>>
                /\ UNCHANGED <<rides, isLoadingRides>>
    /\ UNCHANGED <<auth, dateFrom, hasSearched, rowSelection, localStorage, user, mount, modal,
                   offSession>>

\* The await of fetchMultipleTripDetails of run r resumes (lines 870-888):
\* with the enriched rides of the batch, or with none and the fallback.
RunDetailsReturned(r, enriched) ==
    /\ r \in 1..Len(fetchRuns)
    /\ fetchRuns[r].at = "await_details"
    /\ LET run == fetchRuns[r]
           ids == BatchSlice(run.tripUUIDs, run.i)
           detailRides == IF enriched THEN [k \in 1..Len(ids) |-> DetailRide(ids[k])] ELSE <<>>
           pushed == IF Len(detailRides) > 0
                     THEN PushAll(run.enrichedRides, detailRides)
                     ELSE PushAll(run.enrichedRides, FilterByRideId(run.allActivities, ids))
           next == run.i + batchSize
       IN  IF next < Len(run.tripUUIDs)
           THEN /\ fetchRuns' = [fetchRuns EXCEPT ![r] =
                       FetchRun("await_details", run.auth, run.allActivities, run.pageToken,
                                run.pageCount, run.tripUUIDs, next, pushed)]
                /\ fetchProgress' = <<"Fetching trip details",
                                      Min(next + batchSize, Len(run.tripUUIDs)),
                                      Len(run.tripUUIDs)>>
                /\ UNCHANGED <<rides, isLoadingRides>>
           ELSE /\ rides' = pushed
                /\ fetchProgress' = <<>>
                /\ isLoadingRides' = FALSE
                /\ fetchRuns' = [fetchRuns EXCEPT ![r] = Ended(run)]
    /\ UNCHANGED <<auth, dateFrom, hasSearched, rowSelection, localStorage, user, mount, modal,
                   offSession>>

\* An await of run r throws (the server function is unreachable): catch, finally.
RunThrew(r) ==
    /\ r \in 1..Len(fetchRuns)
    /\ fetchRuns[r].at # "returned"
    /\ fetchProgress' = <<>>
    /\ isLoadingRides' = FALSE
    /\ fetchRuns' = [fetchRuns EXCEPT ![r] = Ended(fetchRuns[r])]
    /\ UNCHANGED <<auth, dateFrom, rides, hasSearched, rowSelection, localStorage, user, mount,
                   modal, offSession>>

InitSession ==
    /\ auth = NullAuth
    /\ dateFrom = TRUE
    /\ FetchAtRest
    /\ ReceiptsAtRest
    /\ ExportAtRest
    /\ ViewAtRest
    /\ CallsAtRest
    /\ FontAtRest
    /\ user = NullUser
    /\ mount = Mount("unmounted", "none", NullAuth)
    /\ modal = Modal("idle", FALSE, NULL, NullAuth)
    /\ fetchRuns = <<>>
    /\ localStorage \in StoredItems

NextSession ==
    \/ Mounted
    \/ \E answer \in Answers : StartupLookupReturned(answer)
    \/ \E cookie \in CookieFields : HandleSubmit(cookie)
    \/ \E answer \in Answers : SubmitLookupReturned(answer)
    \/ SubmitLookupThrew
    \/ HandleLogout
    \/ \E from \in BOOLEAN : SetDateRange(from)
    \/ \E id \in Range(RideIds(rides)) : TableRowToggled(id)
    \/ FetchClicked
    \/ \E r \in 1..Len(fetchRuns) : \E result \in RunPageResults(fetchRuns[r]) :
           RunPageReturned(r, result)
    \/ \E r \in 1..Len(fetchRuns), enriched \in BOOLEAN : RunDetailsReturned(r, enriched)
    \/ \E r \in 1..Len(fetchRuns) : RunThrew(r)

SpecSession == InitSession /\ [][NextSession]_vars

\* ------------------------------------------- handleFetchRides, a second fetch
\* A fetch started while the table shows the rides of an earlier fetch, some
\* of them selected; a server function may also be unreachable, and then the
\* await in the dashboard throws.
PreviousRides == <<DetailRide(TopId), DetailRide(TopId - 1)>>

\* faulty variant of CatchBlock: the rides enriched before the throw are shown
CatchBlock_ShowsPartial ==
    /\ rides' = enrichedRides
    /\ Caught

\* the catch block of handleFetchRides (lines 886-892): no setRides
CatchBlock ==
    /\ rides' = rides
    /\ Caught

\* The call of fetchActivities passes the validator and fails all the same.
FetchActivitiesThrew ==
    /\ pc = "await_page"
    /\ ~AuthRejected(auth)
    /\ CatchBlock
    /\ UNCHANGED <<auth, dateFrom, hasSearched, rowSelection, allActivities, pageToken,
                   pageCount, tripUUIDs, i, batch, enrichedRides, cursor, pageRequests,
                   pageResponses, detailCalls, detailReturns, inFlight, handlerVars,
                   receiptVars, exportVars, viewVars, callVars, fontVars, sessionVars>>

\* The call of fetchMultipleTripDetails passes the validator and fails all the same.
FetchDetailsThrew ==
    /\ pc = "await_details"
    /\ ~DetailsRejected(auth, batch)
    /\ CatchBlock
    /\ UNCHANGED <<auth, dateFrom, hasSearched, rowSelection, allActivities, pageToken,
                   pageCount, tripUUIDs, i, batch, enrichedRides, cursor, pageRequests,
                   pageResponses, detailCalls, detailReturns, inFlight, handlerVars,
                   receiptVars, exportVars, viewVars, callVars, fontVars, sessionVars>>

InitRefetch ==
    /\ auth \in AuthValues
    /\ dateFrom = TRUE
    /\ rides = PreviousRides
    /\ isLoadingRides = FALSE
    /\ hasSearched = TRUE
    /\ rowSelection \in SUBSET Range(RideIds(PreviousRides))
    /\ fetchProgress = <<>>
    /\ pc = "idle"
    /\ allActivities = <<>>
    /\ pageToken = UNDEFINED
    /\ pageCount = 0
    /\ tripUUIDs = <<>>
    /\ i = 0
    /\ batch = <<>>
    /\ enrichedRides = <<>>
    /\ cursor = TopId
    /\ pageRequests = <<>>
    /\ pageResponses = <<>>
    /\ detailCalls = <<>>
    /\ detailReturns = <<>>
    /\ inFlight = 0
    /\ console = <<>>
    /\ dpc = "idle"
    /\ data = <<>>
    /\ results = <<>>
    /\ detailsResult = NoResult
    /\ ReceiptsAtRest
    /\ ExportAtRest
    /\ ViewAtRest
    /\ CallsAtRest
    /\ FontAtRest
    /\ SessionAtRest

NextRefetch ==
    \/ HandleFetchRides
    \/ FetchActivitiesRejected
    \/ FetchActivitiesThrew
    \/ \E result \in PageResults : FetchActivitiesReturned(result)
    \/ DetailRequestSettled
    \/ FetchDetailsThrew
    \/ \E failing \in FailSets(Len(batch)) : FetchDetailsReturned(failing)

SpecRefetch == InitRefetch /\ [][NextRefetch]_vars

\* The answers of the provider that differ for the course of the fetch: a
\* failure, or a page, empty, short or full, with the one token or with null.
CoursePageResults ==
    {result \in PageResults : result.nextPageToken \in {NULL, "tokA"}}

NextRefetchLive ==
    \/ HandleFetchRides
    \/ FetchActivitiesRejected
    \/ FetchActivitiesThrew
    \/ \E result \in CoursePageResults : FetchActivitiesReturned(result)
    \/ DetailRequestSettled
    \/ FetchDetailsThrew
    \/ \E failing \in FailSets(Len(batch)) : FetchDetailsReturned(failing)

\* Every request is answered or fails in the end: a step of the fetch that
\* can be taken is taken.
SpecRefetchLive == InitRefetch /\ [][NextRefetchLive]_vars /\ WF_vars(NextRefetchLive)

\* ------------------------------------------------------------ properties
Last(seq) == seq[Len(seq)]

\* the concatenation of the activities of the first k page results
RECURSIVE ConcatPages(_, _)
ConcatPages(pages, k) ==
    IF k = 0 THEN <<>> ELSE ConcatPages(pages, k - 1) \o pages[k].activities

\* the sum of the activity counts of the first k page results
RECURSIVE SumPageCounts(_, _)
SumPageCounts(pages, k) ==
    IF k = 0 THEN 0 ELSE SumPageCounts(pages, k - 1) + Len(pages[k].activities)

\* the concatenation of the first k sequences of a sequence of sequences
RECURSIVE ConcatSeqs(_, _)
ConcatSeqs(seqs, k) ==
    IF k = 0 THEN <<>> ELSE ConcatSeqs(seqs, k - 1) \o seqs[k]

\* sub can be had from full by deleting elements, the order of the rest kept
RECURSIVE IsSubsequence(_, _)
IsSubsequence(sub, full) ==
    IF sub = <<>> THEN TRUE
    ELSE IF full = <<>> THEN FALSE
    ELSE IF Head(sub) = Head(full) THEN IsSubsequence(Tail(sub), Tail(full))
    ELSE IsSubsequence(sub, Tail(full))

\* a page result has just been received in this step
PageReceived == Len(pageResponses') = Len(pageResponses) + 1

\* a page request has just been sent in this step
PageRequested == Len(pageRequests') = Len(pageRequests) + 1

\* C1: after a page result without error, a further fetchActivities request
\* is sent if and only if that result carried a continuation token.
C1_StopRule ==
    [][(PageReceived /\ ~Truthy(Last(pageResponses').error))
         => (PageRequested <=> Truthy(Last(pageResponses').nextPageToken))]_vars

\* C1 witness: a page with a token was followed by a request, and a later page
\* without error and without token ended the paging.
C1_Witness ==
    /\ Len(pageResponses) >= 2
    /\ Len(pageRequests) = Len(pageResponses)
    /\ Truthy(pageResponses[1].nextPageToken)
    /\ ~Truthy(Last(pageResponses).error)
    /\ ~Truthy(Last(pageResponses).nextPageToken)

\* C2: a failed page is the last one: no request follows it (no retry, no
\* further page), the accumulated list is what the earlier pages gave and is
\* what goes on to enrichment, and the failure is marked (the error field of
\* the page result, reported by console.error).
C2_FailurePolicy ==
    \A k \in 1..Len(pageResponses) :
        Truthy(pageResponses[k].error) =>
            /\ k = Len(pageResponses)
            /\ Len(pageRequests) = k
            /\ pc # "await_page"
            /\ allActivities = ConcatPages(pageResponses, k - 1)
            /\ Len(allActivities) > 0 => tripUUIDs = RideIds(allActivities)
            /\ console = <<"Failed to fetch activities">>

\* C2 witness: the second page failed after a first page that held rides.
C2_Witness ==
    /\ Len(pageResponses) = 2
    /\ Truthy(pageResponses[2].error)
    /\ Len(allActivities) = MaxPageLen
    /\ pc = "returned"
    /\ Len(rides) = MaxPageLen

\* C3: page requests are sequential: at most one is outstanding, the first
\* carries no token, and request k+1 carries exactly the token of page k.
C3_Sequencing ==
    /\ Len(pageResponses) <= Len(pageRequests)
    /\ Len(pageRequests) <= Len(pageResponses) + 1
    /\ (pc = "await_page") => Len(pageRequests) = Len(pageResponses) + 1
    /\ Len(pageRequests) >= 1 => pageRequests[1].nextPageToken = UNDEFINED
    /\ \A k \in 1..(Len(pageRequests) - 1) :
           pageRequests[k + 1].nextPageToken = pageResponses[k].nextPageToken

\* C3 witness: three requests were sent, the last two with different tokens.
C3_Witness ==
    /\ Len(pageRequests) = 3
    /\ pageRequests[2].nextPageToken # pageRequests[3].nextPageToken
    /\ Truthy(pageRequests[3].nextPageToken)

\* C4: the accumulated list is the concatenation, in request order, of the
\* activities of the pages received; its size is the sum of their counts.
C4_Accumulation ==
    /\ allActivities = ConcatPages(pageResponses, Len(pageResponses))
    /\ Len(allActivities) = SumPageCounts(pageResponses, Len(pageResponses))
    /\ pc \in {"await_details", "returned"} /\ Len(allActivities) > 0
           => tripUUIDs = RideIds(allActivities)

\* C4 witness: two pages that both held rides have been accumulated.
C4_Witness ==
    /\ Len(pageResponses) >= 2
    /\ Len(pageResponses[1].activities) = MaxPageLen
    /\ Len(pageResponses[2].activities) = MaxPageLen
    /\ Len(allActivities) = 2 * MaxPageLen

\* C5 as stated: paging ends after at most ceil(total/limit)+1 requests, total
\* being the number of activities accumulated.
C5_RequestBound ==
    pc # "await_page" => Len(pageRequests) <= CeilDiv(Len(allActivities), limit) + 1

\* C6 as stated: no two accumulated records share a ride identifier.
C6_Unduplicated ==
    \A j, k \in 1..Len(allActivities) :
        j # k => allActivities[j].rideId # allActivities[k].rideId

\* C7: the batches are the contiguous slices of ten of the identifier list,
\* in order; when the run ends there are ceil(n/B) of them, they concatenate to
\* the list (every position in exactly one batch) and their sizes sum to n.
C7_Partition ==
    LET n == Len(tripUUIDs)
    IN  /\ \A k \in 1..Len(detailCalls) :
               /\ (k - 1) * batchSize < n
               /\ detailCalls[k] = SubSeq(tripUUIDs, (k - 1) * batchSize + 1,
                                          Min(k * batchSize, n))
        /\ pc = "await_details" => Len(detailCalls) = (i \div batchSize) + 1
        /\ (pc = "returned" /\ n > 0) =>
               /\ Len(detailCalls) = CeilDiv(n, batchSize)
               /\ ConcatSeqs(detailCalls, Len(detailCalls)) = tripUUIDs

\* C7 witness: eleven identifiers went out as a batch of ten and a batch of one.
C7_Witness ==
    /\ pc = "returned"
    /\ Len(tripUUIDs) = 2 * MaxPageLen + 1
    /\ Len(detailCalls) = 2
    /\ Len(detailCalls[1]) = batchSize
    /\ Len(detailCalls[2]) = 1

\* C8 as stated: the enriched list holds its rides in the relative order of
\* the input identifier list, whichever batches fell back.
C8_InputOrder ==
    pc = "returned" => IsSubsequence(RideIds(rides), RideIds(allActivities))

\* C9: at most B getTrip requests are in flight, and a batch is sent only
\* when no request of the batch before it is in flight.
C9_BatchSequencing ==
    [][/\ inFlight' <= batchSize
       /\ Len(detailCalls') > Len(detailCalls) => inFlight = 0
       /\ Len(detailCalls') <= Len(detailReturns') + 1]_vars

\* C9 witness: a second batch is in flight after a full first batch returned.
C9_Witness ==
    /\ Len(detailCalls) = 2
    /\ Len(detailReturns) = 1
    /\ Len(detailCalls[1]) = batchSize
    /\ inFlight > 0

\* the identifiers named by the errors list
ErrorIds(errs) == [k \in 1..Len(errs) |-> errs[k][2]]

\* how many times x occurs in seq
Count(seq, x) == Cardinality({k \in 1..Len(seq) : seq[k] = x})

\* C10: a call that was not rejected at its validator returns, whatever
\* failed, with every requested identifier exactly once in rides or in errors:
\* the settled successes are all in rides, the failures all in errors.
C10_FailureIsolation ==
    /\ (dpc = "pending" /\ PendingSlots = {}) => ENABLED DetailsReturned
    /\ dpc = "returned" =>
        /\ Len(detailsResult.rides) + Len(detailsResult.errors) = Len(data)
        /\ \A id \in DetailIds :
               Count(RideIds(detailsResult.rides), id)
                   + Count(ErrorIds(detailsResult.errors), id) = Count(data, id)
        /\ \A k \in 1..Len(data) :
               IF results[k].success
               THEN results[k].ride \in Range(detailsResult.rides)
               ELSE results[k].error \in Range(detailsResult.errors)

\* C10 witness: a call of three identifiers returned with one failure between
\* two successes.
C10_Witness ==
    /\ dpc = "returned"
    /\ Len(data) = 3
    /\ results[1].success /\ ~results[2].success /\ results[3].success
    /\ Len(detailsResult.rides) = 2
    /\ Len(detailsResult.errors) = 1

\* a fetchMultipleTripDetails result has just been received in this step
BatchReturned == Len(detailReturns') = Len(detailReturns) + 1

\* what the batch that has just returned added to enrichedRides
Contribution == SubSeq(enrichedRides', Len(enrichedRides) + 1, Len(enrichedRides'))

\* C11 as stated: when every request of a batch failed, the batch contributes
\* exactly its own summary records, one per identifier of the batch, in order.
C11_WholeBatchFallback ==
    [][(BatchReturned /\ Len(Last(detailReturns').rides) = 0)
         => enrichedRides' = enrichedRides \o [k \in 1..Len(batch) |-> SummaryRide(batch[k])]]_vars

\* C12: when some but not all requests of a batch failed, the batch contributes
\* exactly the detailed rides of the requests that succeeded, in batch order,
\* and nothing for the failed ones (no summary record).
C12_PartialFailure ==
    [][(BatchReturned /\ Len(Last(detailReturns').rides) > 0
                      /\ Len(Last(detailReturns').errors) > 0)
         => /\ enrichedRides' = enrichedRides \o Contribution
            /\ Len(Contribution) = Len(batch) - Len(Last(detailReturns').errors)
            /\ \A k \in 1..Len(Contribution) :
                   Contribution[k] = DetailRide(Contribution[k].rideId)
            /\ IsSubsequence(RideIds(Contribution), batch)
            /\ \A id \in Range(batch) :
                   Count(RideIds(Contribution), id)
                       + Count(ErrorIds(Last(detailReturns').errors), id) = Count(batch, id)]_vars

\* C12 witness: the run ended after a batch of several identifiers in which
\* one request failed; the rides shown are one fewer than the identifiers.
C12_Witness ==
    /\ pc = "returned"
    /\ Len(detailReturns) = 1
    /\ Len(detailReturns[1].errors) = 1
    /\ Len(detailReturns[1].rides) = MaxPageLen - 1
    /\ Len(rides) = Len(tripUUIDs) - 1
    /\ \A k \in 1..Len(rides) : rides[k].driverName = "driver"

\* how many calls of one kind a callback has made
CountCalls(calls, kind) == Cardinality({j \in 1..Len(calls) : calls[j].call = kind})

\* the receipt handler has passed its inputValidator
ReceiptsActive == rpc \in {"pending", "returned"}

\* C13: for a trip whose isAutoRide is true no invoice-file request is ever
\* sent: the one network call of the trip is the fetch of the direct
\* time-stamped receipt URL, chosen before any call is made.
C13_DirectFlow ==
    ReceiptsActive =>
        \A k \in 1..Len(trips) :
            trips[k].isAutoRide =>
                /\ CountCalls(netCalls[k], "invoiceFiles") = 0
                /\ pdfs[k].stage # "invoice"
                /\ pdfs[k].invoice = <<>>
                /\ pdfs[k].pdfUrl = ReceiptUrl(trips[k].tripUUID, Now)
                /\ netCalls[k] = <<PdfFetch(ReceiptUrl(trips[k].tripUUID, Now))>>

\* C13 witness: a call returned in which an auto ride was fetched directly
\* beside a trip that went through the invoice listing.
C13_Witness ==
    /\ rpc = "returned"
    /\ Len(trips) = 2
    /\ trips[1].isAutoRide /\ ~trips[2].isAutoRide
    /\ Len(netCalls[1]) = 1
    /\ netCalls[2][1].call = "invoiceFiles"

\* C14: for a trip whose isAutoRide is false the first call is the invoice-file
\* request and nothing is fetched before it settles; if it failed or listed no
\* file the document is fetched from the direct time-stamped receipt URL,
\* otherwise from the downloadURL of the first file listed.
C14_FallbackChain ==
    ReceiptsActive =>
        \A k \in 1..Len(trips) :
            ~trips[k].isAutoRide =>
                /\ Len(netCalls[k]) >= 1
                /\ netCalls[k][1] = InvoiceRequest(trips[k].tripUUID)
                /\ pdfs[k].stage = "invoice" =>
                       Len(netCalls[k]) = 1 /\ pdfs[k].pdfUrl = NoUrl
                /\ pdfs[k].stage # "invoice" =>
                       LET inv == pdfs[k].invoice[1]
                           noFile == inv.threw \/ ~inv.hasFiles \/ inv.files = <<>>
                       IN  /\ noFile => pdfs[k].pdfUrl = ReceiptUrl(trips[k].tripUUID, Now)
                           /\ ~noFile => pdfs[k].pdfUrl = Head(inv.files).downloadURL
                           /\ Len(netCalls[k]) >= 2
                           /\ netCalls[k][2] = PdfFetch(pdfs[k].pdfUrl)

\* C14 witness: a call returned in which one trip's listing held two files and
\* the other trip's invoice request failed.
C14_Witness ==
    /\ rpc = "returned"
    /\ Len(trips) = 2
    /\ ~trips[1].isAutoRide /\ ~trips[2].isAutoRide
    /\ Len(pdfs[1].invoice[1].files) = 2
    /\ pdfs[1].pdfUrl.kind = "invoice"
    /\ pdfs[2].invoice[1].threw
    /\ pdfs[2].pdfUrl.kind = "receipt"

\* C15: fetchMultipleReceiptPdfs returns once every callback has returned,
\* whatever failed, with exactly one entry per requested trip at the trip's
\* position, whichever callback returned first; a failed trip's entry is
\* pdfBase64 null with an error, a fetched trip's entry has its document.
C15_SiblingIsolation ==
    /\ (rpc = "pending" /\ UnsettledTrips = {}) => ENABLED ReceiptsReturned
    /\ (rpc = "returned" /\ receiptFn = "fetchMultipleReceiptPdfs") =>
        /\ Len(receiptsResult.pdfs) = Len(trips)
        /\ \A k \in 1..Len(trips) :
               /\ receiptsResult.pdfs[k].rideId = trips[k].tripUUID
               /\ receiptsResult.pdfs[k] = pdfs[k].result[1]
               /\ receiptsResult.pdfs[k].pdfBase64.isNull
                      <=> Truthy(receiptsResult.pdfs[k].error)
               /\ ~receiptsResult.pdfs[k].pdfBase64.isNull =>
                      receiptsResult.pdfs[k].pdfBase64.base64.src = pdfs[k].pdfUrl

\* C15 witness: the second trip's fetch failed before the first trip's fetch
\* succeeded; the call returned both entries in request order.
C15_Witness ==
    /\ rpc = "returned"
    /\ receiptFn = "fetchMultipleReceiptPdfs"
    /\ Len(trips) = 2
    /\ trips[1].tripUUID # trips[2].tripUUID
    /\ firstSettled = 2
    /\ receiptsResult.pdfs[2].pdfBase64.isNull
    /\ ~receiptsResult.pdfs[1].pdfBase64.isNull

\* C16: a trip's document is fetched exactly once, failed or not: one network
\* call for a trip on the direct flow, two for a trip on the invoice flow.
C16_RequestCount ==
    ReceiptsActive =>
        \A k \in 1..Len(trips) :
            LET most == IF trips[k].isAutoRide THEN 1 ELSE 2
            IN  /\ Len(netCalls[k]) <= most
                /\ CountCalls(netCalls[k], "pdf") <= 1
                /\ pdfs[k].stage # "invoice" => CountCalls(netCalls[k], "pdf") = 1
                /\ pdfs[k].stage = "settled" => Len(netCalls[k]) = most

\* C16 witness: a call returned in which both documents failed, one on the
\* direct flow after one call and one on the invoice flow after two.
C16_Witness ==
    /\ rpc = "returned"
    /\ Len(trips) = 2
    /\ trips[1].isAutoRide /\ ~trips[2].isAutoRide
    /\ pdfs[1].result[1].pdfBase64.isNull /\ pdfs[2].result[1].pdfBase64.isNull
    /\ Len(netCalls[1]) = 1
    /\ Len(netCalls[2]) = 2

\* the pages the document of trip k can give to a merge: none when its fetch
\* failed or its payload is no PDF
ExpectedPages(k) ==
    LET pdf == pdfs[k].result[1].pdfBase64
    IN  IF pdf.isNull \/ pdf.base64.malformed THEN <<>>
        ELSE [n \in 1..pdf.base64.pages |-> DocumentPage(trips[k].tripUUID, n)]
ExpectedBySlot == [k \in 1..Len(pdfs) |-> ExpectedPages(k)]

\* the pages of one kind of a merged document, in their order
PagesOfKind(pages, kind) == SelectSeq(pages, LAMBDA page : page.kind = kind)

\* the trips whose fetch failed, and those fetched with a payload that is no PDF
FailedTrips == {k \in 1..Len(pdfs) : pdfs[k].result[1].pdfBase64.isNull}
MalformedTrips ==
    {k \in 1..Len(pdfs) : ~pdfs[k].result[1].pdfBase64.isNull
                          /\ pdfs[k].result[1].pdfBase64.base64.malformed}

\* the run ended in its outer catch
ExportThrew ==
    \E j \in 1..Len(console) :
        console[j] \in {<<"Failed to download receipts">>, <<"Failed to download invoices">>}

\* C17: the report is the pages of the cover, then the pages of the selected
\* trips' documents in the order of the selection, whichever document was
\* fetched first.
C17_MergeOrdering ==
    \A j \in 1..Len(downloads) :
        downloads[j].filename = "uber_expenses" =>
            LET cover == PagesOfKind(downloads[j].pages, "cover")
            IN  /\ Len(cover) >= 1
                /\ cover = CoverPages(Len(cover))
                /\ trips = TripsOf(summary.rides)
                /\ downloads[j].pages = cover \o ConcatSeqs(ExpectedBySlot, Len(pdfs))

\* C17 witness: the second document was fetched before the first; the report
\* holds the cover, then the pages of the first, then the page of the second.
C17_Witness ==
    /\ Len(downloads) = 1
    /\ downloads[1].filename = "uber_expenses"
    /\ Len(trips) = 2
    /\ firstSettled = 2
    /\ Len(ExpectedPages(1)) = MaxDocPages
    /\ Len(ExpectedPages(2)) = 1
    /\ Last(downloads[1].pages) = DocumentPage(trips[2].tripUUID, 1)

\* C18: a document that cannot be loaded is logged and skipped: the file is
\* still delivered and holds the cover (report) and the pages of every
\* document that can be loaded, in their order.
C18_MergeIsolation ==
    /\ (epc = "returned" /\ Len(validPdfs) > 0 /\ ~ExportThrew) => Len(downloads) = 1
    /\ \A j \in 1..Len(downloads) :
        /\ PagesOfKind(downloads[j].pages, "document") = ConcatSeqs(ExpectedBySlot, Len(pdfs))
        /\ downloads[j].filename = "uber_expenses" =>
               downloads[j].pages[1].kind = "cover"
        /\ \A k \in 1..Len(pdfs) :
               k \in MalformedTrips <=>
                   <<"Failed to merge PDF for ride", trips[k].tripUUID>> \in Range(console)

\* C18 witness: of three documents the second could not be loaded; the file
\* was delivered with the pages of the first and of the third.
C18_Witness ==
    /\ Len(downloads) = 1
    /\ Len(trips) = 3
    /\ MalformedTrips = {2}
    /\ FailedTrips = {}
    /\ Len(PagesOfKind(downloads[1].pages, "document"))
           = Len(ExpectedPages(1)) + Len(ExpectedPages(3))
    /\ Len(ExpectedPages(1)) > 0 /\ Len(ExpectedPages(3)) > 0

\* C19 as stated: without a cover and without a document that could be fetched
\* and merged, the run ends in an error and no file is delivered; no file
\* delivered is without a cover page and without a document page.
C19_NoEmptyArtifact ==
    /\ \A j \in 1..Len(downloads) :
           \E n \in 1..Len(downloads[j].pages) :
               downloads[j].pages[n].kind \in {"cover", "document"}
    /\ (epc = "returned" /\ exportFn = "handleDownloadInvoices"
            /\ FailedTrips \cup MalformedTrips = 1..Len(pdfs))
           => (downloads = <<>> /\ console # <<>>)

\* C20 as stated: when some but not all fetches of the selected trips fail,
\* the file is delivered, holds exactly the documents that were fetched, and
\* the export names every trip that failed.
C20_PartialFailureExport ==
    (/\ epc = "returned"
     /\ ~ExportThrew
     /\ rpc = "returned"
     /\ MalformedTrips = {}
     /\ FailedTrips # {}
     /\ FailedTrips # 1..Len(pdfs))
        => /\ Len(downloads) = 1
           /\ PagesOfKind(downloads[1].pages, "document") = ConcatSeqs(ExpectedBySlot, Len(pdfs))
           /\ \A k \in FailedTrips :
                  \E j \in 1..Len(console) :
                      Len(console[j]) = 2 /\ console[j][2] = trips[k].tripUUID

\* ------------------------------------------------------------------ C21
\* the positions of the table whose ride is shown under the status filter
\* and is selected
SelectedPositions ==
    {k \in 1..Len(rides) : /\ rides[k].rideId \in rowSelection
                           /\ (statusFilter = "all" \/ rides[k].status = statusFilter)}

\* the n-th smallest element of a set of positions
RECURSIVE NthOf(_, _)
NthOf(P, n) ==
    LET least == CHOOSE k \in P : \A other \in P : k <= other
    IN  IF n = 1 THEN least ELSE NthOf(P \ {least}, n - 1)

\* the sum, in thousandths, of the amounts at a set of positions
RECURSIVE MilliSum(_)
MilliSum(P) ==
    IF P = {} THEN 0
    ELSE LET k == CHOOSE k \in P : TRUE
         IN  ToMilli(rides[k].totalAmount) + MilliSum(P \ {k})

\* C21: in every state of the table (every ride list, status filter and row
\* selection) the summary's rides are exactly the selected rides shown, in
\* table order, selectedCount is their number, totalAmount is the plain sum
\* of their amounts whatever their currencies, and currency is the currency
\* of the first of them.
C21_SelectionDerivation ==
    LET P == SelectedPositions
    IN  /\ summary.selectedCount = Cardinality(P)
        /\ Len(summary.rides) = Cardinality(P)
        /\ \A n \in 1..Cardinality(P) : summary.rides[n] = rides[NthOf(P, n)]
        /\ IF \E k \in P : rides[k].totalAmount.nan
           THEN summary.totalAmount.nan
           ELSE /\ ~summary.totalAmount.nan
                /\ ToMilli(summary.totalAmount) = MilliSum(P)
        /\ P # {} => summary.currency = rides[NthOf(P, 1)].currency

\* a selection of rides of two currencies, with a ride left out of it
C21_Witness ==
    /\ summary.selectedCount >= 2
    /\ summary.selectedCount < Len(rides)
    /\ \E a, b \in 1..Len(summary.rides) : summary.rides[a].currency # summary.rides[b].currency
    /\ ~summary.totalAmount.nan

\* ------------------------------------------------------------------ C22
\* A standard CSV reader (RFC 4180): a field that opens with a double quote
\* runs to the next double quote that is not doubled, and a doubled double
\* quote inside it stands for one; outside quotes a comma ends the field and a
\* line break ends the record.
\* the position of the quote that closes the quoted field whose content
\* starts at k
RECURSIVE QuotedEnd(_, _)
QuotedEnd(text, k) ==
    IF k > Len(text) THEN k
    ELSE IF text[k] = Quote
    THEN IF k < Len(text) /\ text[k + 1] = Quote THEN QuotedEnd(text, k + 2) ELSE k
    ELSE QuotedEnd(text, k + 1)

\* the position of the first delimiter at or after k
RECURSIVE PlainEnd(_, _)
PlainEnd(text, k) ==
    IF k > Len(text) \/ text[k] \in {Comma, Newline} THEN k ELSE PlainEnd(text, k + 1)

RECURSIVE Undouble(_)
Undouble(text) ==
    IF text = <<>> THEN <<>>
    ELSE IF Len(text) >= 2 /\ text[1] = Quote /\ text[2] = Quote
    THEN <<Quote>> \o Undouble(Tail(Tail(text)))
    ELSE <<Head(text)>> \o Undouble(Tail(text))

\* the field that starts at k, and the position of the delimiter that ends it
FieldAt(text, k) ==
    IF k <= Len(text) /\ text[k] = Quote
    THEN LET close == QuotedEnd(text, k + 1)
             stop  == PlainEnd(text, close + 1)
         IN  [value |-> Undouble(SubSeq(text, k + 1, close - 1))
                        \o SubSeq(text, close + 1, stop - 1),
              stop  |-> stop]
    ELSE [value |-> SubSeq(text, k, PlainEnd(text, k) - 1), stop |-> PlainEnd(text, k)]

\* the fields from position k on, each with the delimiter that ends it
RECURSIVE FieldsFrom(_, _)
FieldsFrom(text, k) ==
    LET f == FieldAt(text, k)
    IN  IF f.stop > Len(text) THEN <<[value |-> f.value, delim |-> "eof"]>>
        ELSE <<[value |-> f.value, delim |-> text[f.stop]]>> \o FieldsFrom(text, f.stop + 1)

\* the records: a record ends with the field that a line break or the end of
\* the text ends
RECURSIVE Records(_, _)
Records(fields, row) ==
    IF fields = <<>> THEN <<>>
    ELSE IF Head(fields).delim = Comma
    THEN Records(Tail(fields), Append(row, Head(fields).value))
    ELSE <<Append(row, Head(fields).value)>> \o Records(Tail(fields), <<>>)

ReadCsv(text) == Records(FieldsFrom(text, 1), <<>>)

\* a rendered amount shows the sum of the amounts of the selected rides
ShowsTotal(cell) ==
    IF \E k \in SelectedPositions : rides[k].totalAmount.nan
    THEN cell = <<"NaN">>
    ELSE /\ cell # <<>>
         /\ \A n \in 1..Len(cell) : IsDigit(cell[n]) \/ cell[n] = "."
         /\ DigitsValue(0, cell) = (MilliSum(SelectedPositions) + 5) \div 10

SymbolOf(currency) ==
    CASE currency = "INR" -> RupeeSign [] currency = "EUR" -> EuroSign
      [] currency = "GBP" -> PoundSign [] OTHER -> DollarSign

IsCsv(file) == file.filename = "uber_expenses.csv"
IsSummaryPdf(file) == file.filename = "uber_summary.pdf"

\* C22: the last row of every CSV and of every summary table delivered shows
\* the sum of the amounts of the rides of its rows, which are the selected
\* rides, with the currency of the first of them: as the code in the CSV, as
\* the symbol in the PDF.
C22_ExportTotals ==
    \A d \in 1..Len(downloads) :
        LET P == SelectedPositions
            first == rides[NthOf(P, 1)]
        IN  /\ IsCsv(downloads[d]) =>
                LET rows == ReadCsv(downloads[d].content)
                    total == rows[Len(rows)]
                IN  /\ Len(rows) = Cardinality(P) + 2
                    /\ \A n \in 1..Cardinality(P) :
                          rows[n + 1][1] = <<ToString(rides[NthOf(P, n)].rideId)>>
                    /\ Len(total) = 10
                    /\ total[8] = <<"Total:">>
                    /\ ShowsTotal(total[9])
                    /\ total[10] = <<first.currency>>
            /\ IsSummaryPdf(downloads[d]) =>
                LET rows == downloads[d].coverRows
                    total == rows[Len(rows)]
                IN  /\ Len(rows) = Cardinality(P) + 1
                    /\ Len(total) = 8
                    /\ total[7] = <<"Grand Total:">>
                    /\ Head(total[8]) = SymbolOf(first.currency)
                    /\ ShowsTotal(Tail(total[8]))

\* the CSV of two rides of 84.38 INR and 120.00 INR ends with Total:,204.38,INR
C22_Witness ==
    \E d \in 1..Len(downloads) :
        /\ IsCsv(downloads[d])
        /\ LET rows == ReadCsv(downloads[d].content)
           IN  /\ Len(rows) = 4
               /\ rows[2][9] = <<"8", "4", ".", "3", "8">>
               /\ rows[3][9] = <<"1", "2", "0", ".", "0", "0">>
               /\ rows[2][10] = <<"INR">> /\ rows[3][10] = <<"INR">>
               /\ SubSeq(rows[4], 8, 10) = << <<"Total:">>, <<"2", "0", "4", ".", "3", "8">>,
                                              <<"INR">> >>

\* ------------------------------------------------------------------ C23
\* a date string as the text of a cell
TextOf(str) == IF str = EmptyString THEN <<>> ELSE <<str>>

\* standard parsing fails on the string
FailsParsing(dateStr) == ~ParsesAsISO(dateStr) /\ ~ParsesNatively(dateStr)

\* C23: in every CSV and every summary table delivered, the pickup and the
\* dropoff cell of a ride whose timestamp fails standard parsing hold the
\* original, unparsed string.
C23_DateTolerance ==
    \A d \in 1..Len(downloads) :
        LET P == SelectedPositions
            rows == IF IsCsv(downloads[d]) THEN Tail(ReadCsv(downloads[d].content))
                    ELSE downloads[d].coverRows
        IN  (IsCsv(downloads[d]) \/ IsSummaryPdf(downloads[d])) =>
                \A n \in 1..Cardinality(P) :
                    LET ride == rides[NthOf(P, n)]
                    IN  /\ FailsParsing(ride.startTime) => rows[n][2] = TextOf(ride.startTime)
                        /\ FailsParsing(ride.endTime) => rows[n][3] = TextOf(ride.endTime)

\* ------------------------------------------------------------------ C24
\* the number of double quotes in a text
CountQuotes(text) == Cardinality({k \in 1..Len(text) : text[k] = Quote})

\* every run of double quotes in the text has even length
QuotesPaired(text) ==
    \A k \in 1..Len(text) :
        text[k] = Quote =>
            LET before == Cardinality({j \in 1..k : \A m \in j..k : text[m] = Quote})
            IN  IF before % 2 = 1 THEN k < Len(text) /\ text[k + 1] = Quote
                ELSE TRUE

\* C24: for every text field, the quoted field starts and ends with a double
\* quote, every double quote of the text appears doubled between them, and a
\* standard CSV reader that splits a row containing the field recovers the
\* original text as one field.
C24_QuotingRoundTrip ==
    (callFn = "CsvQuoted" /\ callRet.returned) =>
        LET q == callRet.value
            inner == SubSeq(q, 2, Len(q) - 1)
        IN  /\ Len(q) >= 2 /\ q[1] = Quote /\ q[Len(q)] = Quote
            /\ CountQuotes(inner) = 2 * CountQuotes(callArg)
            /\ QuotesPaired(inner)
            /\ ReadCsv(<<"id", Comma>> \o q \o <<Comma, "rest">>)
                   = << << <<"id">>, callArg, <<"rest">> >> >>

\* a field with a double quote, a comma and a line break has been quoted
C24_Witness ==
    /\ callFn = "CsvQuoted" /\ callRet.returned
    /\ {Quote, Comma, Newline} \subseteq Range(callArg)

\* ------------------------------------------------------------------ C25
\* digits, a decimal point, two digits
TwoDecimals(cell) ==
    /\ Len(cell) >= 4
    /\ cell[Len(cell) - 2] = "."
    /\ \A k \in 1..Len(cell) : k # Len(cell) - 2 => IsDigit(cell[k])

\* C25: every CSV delivered for a selection of n rides reads back as the
\* header row, then one row per selected ride in the order of the selection,
\* then the totals row, and every amount in it has exactly two decimals.
C25_CsvStructure ==
    \A d \in 1..Len(downloads) :
        IsCsv(downloads[d]) =>
            LET P == SelectedPositions
                n == Cardinality(P)
                rows == ReadCsv(downloads[d].content)
            IN  /\ Len(rows) = n + 2
                /\ rows[1] = CsvHeaders
                /\ \A k \in 1..n :
                      /\ Len(rows[k + 1]) = 10
                      /\ rows[k + 1][1] = <<ToString(rides[NthOf(P, k)].rideId)>>
                      /\ rows[k + 1][4] = rides[NthOf(P, k)].driverName
                      /\ TwoDecimals(rows[k + 1][9])
                /\ Len(rows[n + 2]) = 10
                /\ rows[n + 2][8] = <<"Total:">>
                /\ TwoDecimals(rows[n + 2][9])

\* ------------------------------------------------------------------ C26
\* the cookie or the anti-forgery token is missing
MissingCredential == auth.isNull \/ auth.cookie = EmptyString \/ auth.csrfToken = EmptyString

\* the identifiers the called function requires are missing
MissingIdentifiers ==
    \/ receiptFn = "fetchReceiptPdf" /\ trips[1].tripUUID = EmptyString
    \/ receiptFn = "fetchMultipleReceiptPdfs" /\ Len(trips) = 0

C27_AmountExtraction ==
    (callFn = "ParseFare" /\ callRet.returned) =>
        callRet.value.totalAmount =
            IF fareMatch(callArg).matched
            THEN ParseFloat(SelectSeq(fareMatch(callArg).group, LAMBDA c : c # Comma))
            ELSE Zero

\* ------------------------------------------------------------------ C28
Currencies == {"INR", "EUR", "GBP", "USD"}

\* C28: the amount of every transformed ride is a number that is not
\* negative, its currency is one of INR, EUR, GBP and USD, and an amount that
\* the table saves after an edit is a number above zero.
C28_RideInvariant ==
    /\ (callFn = "ParseFare" /\ callRet.returned) =>
          /\ ~callRet.value.totalAmount.nan
          /\ callRet.value.totalAmount.int >= 0
          /\ callRet.value.currency \in Currencies
    /\ (callFn = "handleSaveAmount" /\ callRet.returned /\ callRet.value.saved) =>
          /\ ~callRet.value.newAmount.nan
          /\ Positive(callRet.value.newAmount)

\* ------------------------------------------------------------------ C29
\* C29: the currency of every fare or description is INR if the string holds
\* a rupee sign anywhere, else EUR if it holds a euro sign, else GBP if it
\* holds a pound sign, else USD, wherever in the string the amount was found.
C29_CurrencyDetection ==
    (callFn = "ParseFare" /\ callRet.returned) =>
        callRet.value.currency =
            IF RupeeSign \in Range(callArg) THEN "INR"
            ELSE IF EuroSign \in Range(callArg) THEN "EUR"
            ELSE IF PoundSign \in Range(callArg) THEN "GBP"
            ELSE "USD"

\* the amount was taken from behind a euro sign, a rupee sign stands later in
\* the string: the currency is INR
C29_Witness ==
    /\ callFn = "ParseFare" /\ callRet.returned
    /\ Len(callArg) >= 3
    /\ callArg[1] = EuroSign /\ IsDigit(callArg[2])
    /\ callArg[Len(callArg)] = RupeeSign
    /\ callRet.value.currency = "INR"
    /\ Positive(callRet.value.totalAmount)

\* ------------------------------------------------------------------ C30
\* the text holds one of the keywords moto, bike, auto, tuk, in any case
HoldsKeyword(text) ==
    \E word \in { <<"m", "o", "t", "o">>, <<"b", "i", "k", "e">>,
                  <<"a", "u", "t", "o">>, <<"t", "u", "k">> } :
        IncludesWord(toLowerCase(text), word)

\* C30: the classification of an image URL is that of the same text as a
\* label: the ride takes the simple receipt flow exactly when the text holds
\* moto, bike, auto or tuk, in any case.
C30_UrlClassification ==
    /\ (callFn = "isAutoRide" /\ callRet.returned) =>
          /\ callRet.value = HoldsKeyword(callArg)
          /\ callRet.value = getVehicleInfo(callArg).isAuto
    /\ (callFn = "getVehicleInfo" /\ callRet.returned) =>
          callRet.value.isAuto = HoldsKeyword(callArg)

\* ------------------------------------------------------------------ C31
\* the label, in any case, holds the word
HoldsWord(text, word) == IncludesWord(toLowerCase(text), word)

\* C31: for every label, the empty one included, the ride is a bike when the
\* label holds moto or bike in any case, an auto when it holds auto or tuk,
\* standard otherwise, and it takes the simple receipt flow exactly when it is
\* a bike or an auto: UberXL is standard, Moto a bike, Auto an auto.
C31_LabelClassification ==
    (callFn = "getVehicleInfo" /\ callRet.returned) =>
        LET bike == HoldsWord(callArg, <<"m", "o", "t", "o">>)
                    \/ HoldsWord(callArg, <<"b", "i", "k", "e">>)
            auto == HoldsWord(callArg, <<"a", "u", "t", "o">>)
                    \/ HoldsWord(callArg, <<"t", "u", "k">>)
        IN  /\ callRet.value.isBike = bike
            /\ callRet.value.isAuto = (auto \/ bike)
            /\ callArg = <<"U", "b", "e", "r", "X", "L">> =>
                  ~callRet.value.isAuto /\ ~callRet.value.isBike
            /\ callArg = <<"M", "o", "t", "o">> =>
                  callRet.value.isAuto /\ callRet.value.isBike
            /\ callArg = <<"A", "u", "t", "o">> =>
                  callRet.value.isAuto /\ ~callRet.value.isBike
            /\ callArg = <<>> => ~callRet.value.isAuto /\ ~callRet.value.isBike

\* the label Moto has been classified: a bike on the simple receipt flow
C31_Witness ==
    /\ callFn = "getVehicleInfo" /\ callRet.returned
    /\ callArg = <<"M", "o", "t", "o">>
    /\ callRet.value.isBike /\ callRet.value.isAuto

\* ------------------------------------------------------------------ C32
\* C32: however the render calls interleave, the font file is requested at
\* most once, and a render call made once the font is cached returns the
\* cached bytes.
C32_FontLoadedOnce ==
    /\ Len(fontFetches) <= 1
    /\ \A r \in 1..Len(renders) : renders[r].at = "returned" => renders[r].bytes = FontBytes

\* ------------------------------------------------------------------ C33
\* C33: whatever the user does (load the page, connect, log out), no step
\* writes the session cookie to the browser's persistent storage: a step
\* changes the stored item only by removing it.
C33_CredentialConfinement ==
    [][localStorage' = localStorage \/ localStorage' = NoItem]_vars

\* ------------------------------------------------------------------ C34
\* C34: when the lookup of the mount effect comes back and the provider has
\* answered 404, the dashboard has logged out: the stored credential is
\* removed, auth and user are null.
C34_SessionExpiryLogout ==
    [][(mount.at = "await_user" /\ mount'.at = "done" /\ mount'.answer = "404")
       => (localStorage' = NoItem /\ auth'.isNull /\ user'.isNull)]_vars

\* ------------------------------------------------------------------ C35
\* C35: while no fetch has been started since the last logout or connect
\* (hasSearched is false), the rides list and the row selection are empty.
C35_LogoutClearsRides ==
    ~hasSearched => (rides = <<>> /\ rowSelection = {})

\* ------------------------------------------------------------------ C40
\* C40: at most one call of handleFetchRides is in progress at any time.
C40_SingleAggregation ==
    Cardinality(RunsInProgress) <= 1

\* a call is in progress for an account the user has left, the Fetch button
\* shows again for the account connected since, and a start date is set
C40_Witness ==
    /\ ~auth.isNull
    /\ dateFrom
    /\ \E r \in RunsInProgress : fetchRuns[r].auth # auth

\* ------------------------------------------------------------------ C36
\* the rides of the documents appended to a file, in the order of their pages
RECURSIVE DocumentRides(_)
DocumentRides(pages) ==
    IF pages = <<>> THEN <<>>
    ELSE LET rest == DocumentRides(Tail(pages))
         IN  IF Head(pages).kind = "document" /\ (rest = <<>> \/ Head(rest) # Head(pages).src)
             THEN <<Head(pages).src>> \o rest
             ELSE rest

\* C36: in a report that is delivered, the cover table lists every selected
\* ride and its Grand Total is the sum over every selected ride, the rides
\* whose receipt could not be fetched included; the documents appended are
\* those of the rides whose receipt was fetched (and could be loaded), each
\* complete, in the order of their rows in the cover table.
C36_CoverVersusReceipts ==
    \A j \in 1..Len(downloads) :
        downloads[j].filename = "uber_expenses" =>
            LET cover == downloads[j].coverRows
                docs == PagesOfKind(downloads[j].pages, "document")
            IN  /\ Len(validPdfs) >= 1
                /\ RideIds(cover.rides) = RideIds(summary.rides)
                /\ cover.totalAmount = SumAmounts(Zero, summary.rides)
                /\ trips = TripsOf(summary.rides)
                /\ docs = ConcatSeqs(ExpectedBySlot, Len(pdfs))
                /\ Range(DocumentRides(docs))
                       = {trips[k].tripUUID : k \in (1..Len(pdfs)) \ (FailedTrips \cup MalformedTrips)}
                /\ IsSubsequence(DocumentRides(docs), RideIds(cover.rides))

\* C36 witness: a report of three selected rides was delivered; the receipt of
\* the second could not be fetched, the documents of the first and the third
\* follow the cover, and the cover lists the three rides.
C36_Witness ==
    /\ Len(downloads) = 1
    /\ downloads[1].filename = "uber_expenses"
    /\ Len(trips) = 3
    /\ FailedTrips = {2}
    /\ MalformedTrips = {}
    /\ Len(downloads[1].coverRows.rides) = 3
    /\ DocumentRides(downloads[1].pages) = <<trips[1].tripUUID, trips[3].tripUUID>>

\* ------------------------------------------------------------------ C37
\* the answer the provider gave to the fetch of the document of trip k, read
\* off what the callback returned
AnswerOf(k) ==
    LET result == pdfs[k].result[1]
    IN  IF ~result.pdfBase64.isNull
        THEN [ok |-> TRUE, rejected |-> FALSE, body |-> result.pdfBase64.base64]
        ELSE [ok |-> FALSE, rejected |-> result.error = "fetch failed",
              body |-> PdfBody(pdfs[k].pdfUrl, 0, TRUE)]

\* What the resolver of the function fn makes of trip k under the answers the
\* provider gave for trip k so far: the requests it sends, the URL it chooses,
\* and what it yields.
Resolution(fn, k) ==
    LET trip == trips[k]
        start == StartTrip(trip, Now)
        asked == start.stage = "invoice" /\ pdfs[k].invoice # <<>>
        url == IF asked THEN ChoosePdfUrl(trip, pdfs[k].invoice[1], Now) ELSE start.pdfUrl
        requests == IF asked THEN IssuePdfFetch(FirstCall(trip, Now), url)
                    ELSE FirstCall(trip, Now)
    IN  [requests |-> requests,
         url      |-> url,
         yields   |-> IF pdfs[k].stage # "settled" THEN <<>>
                      ELSE LET result == PdfOutcome(fn, trip, AnswerOf(k))
                           IN  <<[pdfBase64 |-> result.pdfBase64, error |-> result.error]>>]

\* what the call in progress has made of trip k
Resolved(k) ==
    [requests |-> netCalls[k],
     url      |-> pdfs[k].pdfUrl,
     yields   |-> IF pdfs[k].stage # "settled" THEN <<>>
                  ELSE <<[pdfBase64 |-> pdfs[k].result[1].pdfBase64,
                          error     |-> pdfs[k].result[1].error]>>]

FetchAborted ==
    /\ pc = "returned"
    /\ console # <<>>
    /\ console[Len(console)] = "Failed to fetch rides"

\* C38: when a call inside handleFetchRides throws, rides is what it was before
\* the fetch started, whatever earlier batches had enriched, and the row
\* selection is empty; no step of a fetch that throws changes rides.
C38_AbortLeavesRides ==
    /\ FetchAborted => (rides = PreviousRides /\ rowSelection = {})
    /\ pc \in {"await_page", "await_details"} => (rides = PreviousRides /\ rowSelection = {})

\* C38 witness: the first batch of details came back, the call for the second
\* batch threw: the rides of the first batch are in enrichedRides, the
\* table still shows the rides of the fetch before.
C38_Witness ==
    /\ FetchAborted
    /\ ~AuthRejected(auth)
    /\ Len(detailCalls) = 2
    /\ Len(enrichedRides) = batchSize
    /\ rides = PreviousRides

\* ------------------------------------------------------------------ C39
\* the fetch has returned and left the page at rest
FetchAtEnd ==
    /\ pc = "returned"
    /\ ~isLoadingRides
    /\ fetchProgress = <<>>

\* C39: isLoadingRides is true exactly while a call of handleFetchRides is
\* between its start and its return; when the call has returned, by whatever
\* path, isLoadingRides is false and fetchProgress is empty; and every fetch
\* that was started returns.
C39_LoadingLifecycle ==
    /\ [](isLoadingRides <=> pc \in {"await_page", "await_details"})
    /\ [](pc = "returned" => FetchAtEnd)
    /\ [](pc = "idle" => ~isLoadingRides /\ fetchProgress = <<>>)
    /\ (isLoadingRides ~> FetchAtEnd)

\* C39 witness: a fetch that went through three pages and two batches of
\* details has returned.
C39_Witness ==
    /\ FetchAtEnd
    /\ pageCount = MaxPages
    /\ Len(detailReturns) = 2
    /\ console = <<>>
====
